---- MODULE Spec2Model ----
(***************************************************************************)
(* Model of the QR-code encoder of QR-Fox (popup/qr-generator.ts).         *)
(* generateQR(text, {dark}) validates the text, encodes it in byte mode,   *)
(* adds Reed-Solomon codewords, builds the symbol matrix, selects and      *)
(* applies a mask, writes the format information and renders an SVG.       *)
(* One call is modelled as a sequence of steps, one per statement group of *)
(* generateQR / createQRCode, so that the order of the phases is visible.  *)
(***************************************************************************)
EXTENDS Integers, Sequences, FiniteSets, TLC

(***************************************************************************)
(* Bounds of the model.                                                    *)
(***************************************************************************)
\* Longest run of one repeated character among the generated input texts.
MaxFill == 135
\* Largest byte count handed to getMinVersion by the version-table probe.
MaxProbe == 140
\* Number of astral characters (surrogate pairs) in the longest such input text.
MaxAstral == 23

(***************************************************************************)
(* JavaScript integer operators used by the encoder.                       *)
(***************************************************************************)
RECURSIVE BitXor(_, _)
BitXor(a, b) ==
  IF a = 0 THEN b
  ELSE IF b = 0 THEN a
  ELSE ((a + b) % 2) + 2 * BitXor(a \div 2, b \div 2)

RECURSIVE BitAnd(_, _)
BitAnd(a, b) ==
  IF a = 0 \/ b = 0 THEN 0
  ELSE ((a % 2) * (b % 2)) + 2 * BitAnd(a \div 2, b \div 2)

RECURSIVE BitOr(_, _)
BitOr(a, b) ==
  IF a = 0 THEN b
  ELSE IF b = 0 THEN a
  ELSE (IF (a % 2) + (b % 2) > 0 THEN 1 ELSE 0) + 2 * BitOr(a \div 2, b \div 2)

RECURSIVE Pow2(_)
Pow2(n) == IF n = 0 THEN 1 ELSE 2 * Pow2(n - 1)

\* x >> n
Shr(x, n) == x \div Pow2(n)

\* (x >> i) & 1
BitAt(x, i) == BitAnd(Shr(x, i), 1)

\* The bits of x from bit hi down to bit 0: for (i = hi; i >= 0; i--) push((x >> i) & 1)
RECURSIVE BitsMsbFirst(_, _)
BitsMsbFirst(x, hi) ==
  IF hi < 0 THEN <<>> ELSE <<BitAt(x, hi)>> \o BitsMsbFirst(x, hi - 1)

Max(a, b) == IF a >= b THEN a ELSE b
Min(a, b) == IF a <= b THEN a ELSE b
Abs(a) == IF a < 0 THEN 0 - a ELSE a

\* Array.prototype.slice(from, to) on a sequence indexed from 1 (from, to are 0-based)
Slice(s, from, to) ==
  LET hi == Min(to, Len(s)) IN
  IF from >= hi THEN <<>> ELSE SubSeq(s, from + 1, hi)

\* The value of a slot of a JavaScript array that was never assigned.
Undefined == -1

\* An array is a table of computed values: the function v with every element evaluated.
Strict(v) == v @@ <<>>

\* A size x size grid (an array of rows) whose cell (r, c) holds Cell(r, c).
Grid(size, Cell(_, _)) ==
  Strict([r \in 0..(size - 1) |-> Strict([c \in 0..(size - 1) |-> Cell(r, c)])])

\* for (i = lo; i <= hi; i++) st = Body(st, i), the state computed before the next iteration
RECURSIVE Loop(_, _, _, _)
Loop(Body(_, _), lo, hi, st) ==
  IF lo > hi \/ Len(<<st>>) # 1 THEN st
  ELSE IF lo = hi THEN Body(st, lo)
  ELSE LET mid == (lo + hi) \div 2
           left == Loop(Body, lo, mid, st)
       IN IF Len(<<left>>) = 1 THEN Loop(Body, mid + 1, hi, left) ELSE left

(***************************************************************************)
(* Galois field GF(2^8): tables GF_EXP and GF_LOG built by initGF.         *)
(***************************************************************************)
\* body of the first loop of initGF: GF_EXP[i] = x; GF_LOG[x] = i; x <<= 1; reduce by 0x11d
InitGFStep1(t, i) ==
  LET x1 == 2 * t.x
  IN [x |-> IF BitAnd(x1, 256) # 0 THEN BitXor(x1, 285) ELSE x1,
      exp |-> [t.exp EXCEPT ![i] = t.x],
      log |-> [t.log EXCEPT ![t.x] = i]]

\* the second loop written with the offset 254
InitGFStep2Offset254(exp, i) == [exp EXCEPT ![i] = exp[i - 254]]

\* body of the second loop of initGF: GF_EXP[i] = GF_EXP[i - 255]
InitGFStep2(exp, i) == [exp EXCEPT ![i] = exp[i - 255]]

initGF ==
  LET t0 == [x |-> 1,
             exp |-> Strict([i \in 0..511 |-> Undefined]),
             log |-> Strict([i \in 0..255 |-> Undefined])]
      t1 == Loop(InitGFStep1, 0, 254, t0)
  IN [exp |-> Loop(InitGFStep2, 255, 511, t1.exp), log |-> t1.log]

\* const GF_EXP = new Array(512), const GF_LOG = new Array(256): the two arrays
\* of the module, filled by initGF when the module is loaded and shared by all calls
VARIABLES GF_EXP, GF_LOG

tableVars == <<GF_EXP, GF_LOG>>

\* the exponent table after a call that cleared its entry 0
ExpClearedAtZero(exp) == [exp EXCEPT ![0] = 0]

\* the exponent table after the calls of rsEncode: gfMul, rsGeneratorPoly and
\* rsEncode read GF_EXP and GF_LOG and assign only to their own arrays poly,
\* newPoly, gen and result
ExpAfterRsEncode(exp) == exp

gfMul(a, b) ==
  IF a = 0 \/ b = 0 THEN 0 ELSE GF_EXP[GF_LOG[a] + GF_LOG[b]]

(***************************************************************************)
(* Reed-Solomon encoder.  Arrays are sequences; JS index k is TLA+ k + 1.  *)
(***************************************************************************)
\* the pass that multiplies by (x - alpha^(i + 1))
RsPolyStepFromOne(poly, i) ==
  Strict([k \in 1..(Len(poly) + 1) |->
     BitXor(IF k <= Len(poly) THEN poly[k] ELSE 0,
            IF k >= 2 THEN gfMul(poly[k - 1], GF_EXP[i + 1]) ELSE 0)])

\* one pass of the outer loop of rsGeneratorPoly: newPoly from poly
RsPolyStep(poly, i) ==
  Strict([k \in 1..(Len(poly) + 1) |->
     BitXor(IF k <= Len(poly) THEN poly[k] ELSE 0,
            IF k >= 2 THEN gfMul(poly[k - 1], GF_EXP[i]) ELSE 0)])

rsGeneratorPoly(numEcc) == Loop(RsPolyStep, 0, numEcc - 1, <<1>>)

\* the iteration with the data byte alone as the coefficient
RsDivStepNoFeedback(result, gen, byte, numEcc) ==
  LET shifted == Tail(result) \o <<0>>
  IN Strict([k \in 1..numEcc |-> BitXor(shifted[k], gfMul(gen[k + 1], byte))])

\* one iteration of "for (const byte of data)" in rsEncode
RsDivStep(result, gen, byte, numEcc) ==
  LET coef == BitXor(byte, result[1])
      shifted == Tail(result) \o <<0>>
  IN Strict([k \in 1..numEcc |-> BitXor(shifted[k], gfMul(gen[k + 1], coef))])

rsEncode(data, numEcc) ==
  LET gen == rsGeneratorPoly(numEcc)
  IN Loop(LAMBDA result, idx : RsDivStep(result, gen, data[idx], numEcc),
          1, Len(data), Strict([k \in 1..numEcc |-> 0]))

(***************************************************************************)
(* Version tables.                                                         *)
(***************************************************************************)
\* ecL: <<totalCW, totalDataCW, ecCWperBlock, numBlocks, dataCWperBlock, 0, 0>>
VERSION_INFO ==
  << [totalCodewords |-> 26,  ecL |-> <<26, 19, 7, 1, 19, 0, 0>>],
     [totalCodewords |-> 44,  ecL |-> <<44, 34, 10, 1, 34, 0, 0>>],
     [totalCodewords |-> 70,  ecL |-> <<70, 55, 15, 1, 55, 0, 0>>],
     [totalCodewords |-> 100, ecL |-> <<100, 80, 20, 1, 80, 0, 0>>],
     [totalCodewords |-> 134, ecL |-> <<134, 108, 26, 1, 108, 0, 0>>],
     [totalCodewords |-> 172, ecL |-> <<172, 136, 18, 2, 68, 0, 0>> ] >>

\* the format words of error correction level M: 0x5412, 0x5125, 0x5e7c,
\* 0x5b4b, 0x45f9, 0x40ce, 0x4f97, 0x4aa0
FORMAT_INFO_LEVEL_M == <<21522, 20773, 24188, 23371, 17913, 16590, 20375, 19104>>

\* 0x77c4, 0x72f3, 0x7daa, 0x789d, 0x662f, 0x6318, 0x6c41, 0x6976 (index mask + 1)
FORMAT_INFO == <<30660, 29427, 32170, 30877, 26159, 25368, 27713, 26998>>

\* index version
ALIGNMENT_POSITIONS == << <<>>, <<6, 18>>, <<6, 22>>, <<6, 26>>, <<6, 30>>, <<6, 34>> >>

\* getMinVersion's local table (index v + 1)
capacities == <<0, 17, 32, 53, 78, 106, 134>>

\* getMinVersion returns null
NoVersion == 0

\* the loop with its comparison written ">" instead of ">="
RECURSIVE MinVersionLoopStrict(_, _)
MinVersionLoopStrict(v, byteCount) ==
  IF v >= Len(capacities) THEN NoVersion
  ELSE IF capacities[v + 1] > byteCount THEN v
  ELSE MinVersionLoopStrict(v + 1, byteCount)

RECURSIVE MinVersionLoop(_, _)
MinVersionLoop(v, byteCount) ==
  IF v >= Len(capacities) THEN NoVersion
  ELSE IF capacities[v + 1] >= byteCount THEN v
  ELSE MinVersionLoop(v + 1, byteCount)

getMinVersion(byteCount) == MinVersionLoop(1, byteCount)

(***************************************************************************)
(* Text handling.  A string is a sequence of UTF-16 code units.            *)
(***************************************************************************)
\* WhiteSpace and LineTerminator code units removed by String.prototype.trim
WhiteSpace ==
  {9, 10, 11, 12, 13, 32, 160, 5760, 8232, 8233, 8239, 8287, 12288, 65279}
    \cup (8192..8202)

RECURSIVE TrimStart(_)
TrimStart(s) ==
  IF s # <<>> /\ Head(s) \in WhiteSpace THEN TrimStart(Tail(s)) ELSE s

RECURSIVE TrimEnd(_)
TrimEnd(s) ==
  IF s # <<>> /\ s[Len(s)] \in WhiteSpace THEN TrimEnd(SubSeq(s, 1, Len(s) - 1)) ELSE s

Trim(s) == TrimEnd(TrimStart(s))

\* the bytes pushed by encodeByteMode for one code unit
EncodeUnit(code) ==
  IF code < 128 THEN <<code>>
  ELSE IF code < 2048 THEN
    << BitOr(192, Shr(code, 6)), BitOr(128, BitAnd(code, 63)) >>
  ELSE
    << BitOr(224, Shr(code, 12)),
       BitOr(128, BitAnd(Shr(code, 6), 63)),
       BitOr(128, BitAnd(code, 63)) >>

\* for (let i = 0; i < str.length; i++) bytes.push(...)
encodeByteMode(str) ==
  Loop(LAMBDA bytes, i : bytes \o EncodeUnit(str[i]), 1, Len(str), <<>>)

(***************************************************************************)
(* createQRCode: bit stream, codewords, blocks and interleaving.           *)
(***************************************************************************)
\* version * 4 + 17
SizeOf(version) == version * 4 + 17

\* a count field of 16 bits in every version
CharCountBitsWide(version) == 16

\* const charCountBits = version < 10 ? 8 : 16
CharCountBits(version) == IF version < 10 THEN 8 ELSE 16

\* the bits of each byte pushed from bit 0 up instead of from bit 7 down
BytesToBitsLsbFirst(bytes) ==
  Strict([k \in 1..(8 * Len(bytes)) |-> BitAt(bytes[((k - 1) \div 8) + 1], (k - 1) % 8)])

\* "for (const byte of dataBytes) for (i = 7; i >= 0; i--) bits.push((byte >> i) & 1)"
BytesToBits(bytes) ==
  Strict([k \in 1..(8 * Len(bytes)) |-> BitAt(bytes[((k - 1) \div 8) + 1], 7 - ((k - 1) % 8))])

\* mode indicator 0100, character count, data bytes
HeaderAndData(dataBytes, version) ==
  <<0, 1, 0, 0>>
    \o BitsMsbFirst(Len(dataBytes), CharCountBits(version) - 1)
    \o BytesToBits(dataBytes)

\* a terminator of at most 3 bits
RECURSIVE TerminatorLoopOfThree(_, _, _)
TerminatorLoopOfThree(bits, i, maxBits) ==
  IF i < 3 /\ Len(bits) < maxBits
    THEN TerminatorLoopOfThree(Append(bits, 0), i + 1, maxBits)
    ELSE bits

\* for (let i = 0; i < 4 && bits.length < maxBits; i++) bits.push(0)
RECURSIVE TerminatorLoop(_, _, _)
TerminatorLoop(bits, i, maxBits) ==
  IF i < 4 /\ Len(bits) < maxBits
    THEN TerminatorLoop(Append(bits, 0), i + 1, maxBits)
    ELSE bits

\* while (bits.length % 8 !== 0 && bits.length < maxBits) bits.push(0)
RECURSIVE ByteBoundaryLoop(_, _)
ByteBoundaryLoop(bits, maxBits) ==
  IF Len(bits) % 8 # 0 /\ Len(bits) < maxBits
    THEN ByteBoundaryLoop(Append(bits, 0), maxBits)
    ELSE bits

padBytes == <<236, 17>>

\* while (bits.length < maxBits) { push the 8 bits of padBytes[padIdx]; padIdx = (padIdx + 1) % 2 }
\* the loop runs once for every started group of 8 missing bits
PadCodewordLoop(bits, maxBits) ==
  LET rounds == IF Len(bits) < maxBits THEN (maxBits - Len(bits) + 7) \div 8 ELSE 0
  IN Loop(LAMBDA b, n : b \o BitsMsbFirst(padBytes[((n - 1) % 2) + 1], 7), 1, rounds, bits)

\* the complete bit sequence of createQRCode
BuildBits(dataBytes, version) ==
  LET maxBits == VERSION_INFO[version].ecL[2] * 8
      b1 == HeaderAndData(dataBytes, version)
      b2 == TerminatorLoop(b1, 0, maxBits)
      b3 == ByteBoundaryLoop(b2, maxBits)
  IN PadCodewordLoop(b3, maxBits)

\* bits[i + j] of a JavaScript array: undefined beyond the end, which "|" reads as 0
BitOrZero(bits, k) == IF k < Len(bits) THEN bits[k + 1] ELSE 0

\* cw = (cw << 1) | bits[i + j] for j = 0..7
RECURSIVE PackLoop(_, _, _, _)
PackLoop(bits, i, j, cw) ==
  IF j >= 8 THEN cw
  ELSE PackLoop(bits, i, j + 1, BitOr(2 * cw, BitOrZero(bits, i + j)))

\* for (let i = 0; i < bits.length; i += 8) dataCodewords.push(cw)
ToCodewords(bits) ==
  Strict([k \in 1..((Len(bits) + 7) \div 8) |-> PackLoop(bits, 8 * (k - 1), 0, 0)])

\* blocks[b] = dataCodewords.slice(cwIdx, cwIdx + dataCodewordsPerBlock), cwIdx += dataCodewordsPerBlock
SplitBlocks(dataCodewords, numBlocks, dataCodewordsPerBlock) ==
  Strict([b \in 1..numBlocks |->
     Slice(dataCodewords, (b - 1) * dataCodewordsPerBlock, b * dataCodewordsPerBlock)])

\* ecBlocks[b] = rsEncode(blocks[b], ecCodewordsPerBlock)
EcBlocks(blocks, ecCodewordsPerBlock) ==
  Strict([b \in 1..Len(blocks) |-> rsEncode(blocks[b], ecCodewordsPerBlock)])

RECURSIVE MaxLen(_, _)
MaxLen(blocks, b) ==
  IF b > Len(blocks) THEN 0 ELSE Max(Len(blocks[b]), MaxLen(blocks, b + 1))

\* inner loop "for (const block of blocks) if (i < block.length) interleaved.push(block[i])"
RECURSIVE InterleaveRow(_, _, _)
InterleaveRow(blocks, i, b) ==
  IF b > Len(blocks) THEN <<>>
  ELSE (IF i < Len(blocks[b]) THEN <<blocks[b][i + 1]>> ELSE <<>>)
         \o InterleaveRow(blocks, i, b + 1)

\* for (let i = 0; i < maxDataLen; i++) ...
InterleaveData(blocks, maxDataLen) ==
  Loop(LAMBDA out, i : out \o InterleaveRow(blocks, i, 1), 0, maxDataLen - 1, <<>>)

\* the error correction codewords pushed block after block
InterleaveEcBlockwise(ecBlocks, ecCodewordsPerBlock) ==
  [k \in 1..(ecCodewordsPerBlock * Len(ecBlocks)) |->
     ecBlocks[((k - 1) \div ecCodewordsPerBlock) + 1][((k - 1) % ecCodewordsPerBlock) + 1]]

\* "for (i < ecCodewordsPerBlock) for (const ec of ecBlocks) interleaved.push(ec[i])"
InterleaveEc(ecBlocks, ecCodewordsPerBlock) ==
  [k \in 1..(ecCodewordsPerBlock * Len(ecBlocks)) |->
     ecBlocks[((k - 1) % Len(ecBlocks)) + 1][((k - 1) \div Len(ecBlocks)) + 1]]

Interleave(dataCodewords, version) ==
  LET ecInfo == VERSION_INFO[version].ecL
      blocks == SplitBlocks(dataCodewords, ecInfo[4], ecInfo[5])
      ecBlocks == EcBlocks(blocks, ecInfo[3])
  IN InterleaveData(blocks, MaxLen(blocks, 1)) \o InterleaveEc(ecBlocks, ecInfo[3])

(***************************************************************************)
(* The symbol matrix.  A grid is a function row -> column -> 0/1 with      *)
(* rows and columns numbered from 0 as in the code.                        *)
(***************************************************************************)
createEmptyMatrix(size) == Grid(size, LAMBDA r, c : 0)

\* matrix[r][c] = v
Put(m, r, c, v) == [m EXCEPT ![r][c] = v]

\* the top-left corners of the three finder patterns
FinderPositions(size) == << <<0, 0>>, <<0, size - 7>>, <<size - 7, 0>> >>

\* value of the finder module at offset (r, c) of the 7x7 pattern
FinderModule(r, c) ==
  LET isEdge == r = 0 \/ r = 6 \/ c = 0 \/ c = 6
      isInner == r >= 2 /\ r <= 4 /\ c >= 2 /\ c <= 4
  IN IF isEdge \/ isInner THEN 1 ELSE 0

\* the cells written by the separator loop (i = 0..7) of the finder at (row, col)
SeparatorCells(row, col, size) ==
  UNION { (IF row = 0 /\ col + i < size
             THEN (IF row + 7 < size THEN {<<row + 7, col + i>>} ELSE {})
             ELSE IF row = size - 7
               THEN (IF row - 1 >= 0 /\ col + i < size THEN {<<row - 1, col + i>>} ELSE {})
               ELSE {})
          \cup
          (IF col = 0 /\ row + i < size
             THEN (IF col + 7 < size THEN {<<row + i, col + 7>>} ELSE {})
             ELSE IF col = size - 7
               THEN (IF col - 1 >= 0 /\ row + i < size THEN {<<row + i, col - 1>>} ELSE {})
               ELSE {}) : i \in 0..7 }

\* one iteration of "for (const [row, col] of positions)": 7x7 pattern, then separator
StampFinder(g, row, col, size) ==
  LET sep == SeparatorCells(row, col, size)
      inPat(r, c) == r >= row /\ r < row + 7 /\ c >= col /\ c < col + 7
  IN [matrix |-> Grid(size, LAMBDA r, c :
                    IF <<r, c>> \in sep THEN 0
                    ELSE IF inPat(r, c) THEN FinderModule(r - row, c - col)
                    ELSE g.matrix[r][c]),
      reserved |-> Grid(size, LAMBDA r, c :
                    IF <<r, c>> \in sep \/ inPat(r, c) THEN 1 ELSE g.reserved[r][c])]

addFinderPatterns(g, size) ==
  Loop(LAMBDA st, k : StampFinder(st, FinderPositions(size)[k][1], FinderPositions(size)[k][2], size),
       1, 3, g)

\* every combination of the version's coordinates, none skipped
AlignmentCentresUnfiltered(version, size) ==
  IF version < 2 THEN {}
  ELSE LET positions == ALIGNMENT_POSITIONS[version]
       IN { <<positions[a], positions[b]>> : a \in 1..Len(positions), b \in 1..Len(positions) }

\* the (row, col) centres at which addAlignmentPatterns stamps a pattern
AlignmentCentres(version, size) ==
  IF version < 2 THEN {}
  ELSE LET positions == ALIGNMENT_POSITIONS[version]
       IN { <<positions[a], positions[b]>> : a \in 1..Len(positions), b \in 1..Len(positions) }
            \ { p \in (0..size) \X (0..size) :
                  \/ (p[1] < 9 /\ p[2] < 9)
                  \/ (p[1] < 9 /\ p[2] > size - 10)
                  \/ (p[1] > size - 10 /\ p[2] < 9) }

\* value of the alignment module at offset (r, c), -2 <= r, c <= 2
AlignmentModule(r, c) ==
  LET isEdge == Abs(r) = 2 \/ Abs(c) = 2
      isCenter == r = 0 /\ c = 0
  IN IF isEdge \/ isCenter THEN 1 ELSE 0

addAlignmentPatterns(g, version, size) ==
  LET centres == AlignmentCentres(version, size)
      hit(r, c) == { p \in centres : Abs(r - p[1]) <= 2 /\ Abs(c - p[2]) <= 2 }
  IN [matrix |-> Grid(size, LAMBDA r, c :
                    IF hit(r, c) # {}
                      THEN LET p == CHOOSE q \in hit(r, c) : TRUE
                           IN AlignmentModule(r - p[1], c - p[2])
                      ELSE g.matrix[r][c]),
      reserved |-> Grid(size, LAMBDA r, c :
                    IF hit(r, c) # {} THEN 1 ELSE g.reserved[r][c])]

\* for (i = 8; i < size - 8; i++): matrix[6][i] = matrix[i][6] = (i + 1) % 2
addTimingPatterns(g, size) ==
  LET onRow(r, c) == r = 6 /\ c >= 8 /\ c < size - 8
      onCol(r, c) == c = 6 /\ r >= 8 /\ r < size - 8
  IN [matrix |-> Grid(size, LAMBDA r, c :
                    IF onRow(r, c) THEN (c + 1) % 2
                    ELSE IF onCol(r, c) THEN (r + 1) % 2
                    ELSE g.matrix[r][c]),
      reserved |-> Grid(size, LAMBDA r, c :
                    IF onRow(r, c) \/ onCol(r, c) THEN 1 ELSE g.reserved[r][c])]

\* the row computed one symbol height too low: 4 * version + 9 + size
DarkModuleRowBelow(version) == 4 * version + 9 + (version * 4 + 17)

\* row of the dark module
DarkModuleRow(version) == 4 * version + 9

addDarkModule(g, version) ==
  [matrix |-> Put(g.matrix, DarkModuleRow(version), 8, 1),
   reserved |-> Put(g.reserved, DarkModuleRow(version), 8, 1)]

\* the whole of row 8 and of column 8 marked
FormatCellsFullLines(size) ==
  { <<8, i>> : i \in 0..(size - 1) } \cup { <<i, 8>> : i \in 0..(size - 1) }

\* the cells marked by reserveFormatAreas
FormatCells(size) ==
  { <<8, i>> : i \in 0..8 } \cup { <<i, 8>> : i \in 0..8 }
    \cup { <<8, size - 1 - i>> : i \in 0..7 }
    \cup { <<size - 1 - i, 8>> : i \in 0..7 }

\* a reservation phase that marks nothing
reserveNothing(reserved, size) == reserved

reserveFormatAreas(reserved, size) ==
  LET cells == FormatCells(size)
  IN Grid(size, LAMBDA r, c : IF <<r, c>> \in cells THEN 1 ELSE reserved[r][c])

(***************************************************************************)
(* placeDataBits.  The walk carries the matrix, bitIdx and, as a record of *)
(* what the walk did, the number of assignments made to each cell.         *)
(***************************************************************************)
\* "if (!reserved[row][col]) matrix[row][col] = bitIdx < bits.length ? bits[bitIdx++] : 0"
PlaceCell(st, reserved, bits, row, col) ==
  IF reserved[row][col] = 0
    THEN [matrix |-> Put(st.matrix, row, col,
                         IF st.bitIdx < Len(bits) THEN bits[st.bitIdx + 1] ELSE 0),
          bitIdx |-> IF st.bitIdx < Len(bits) THEN st.bitIdx + 1 ELSE st.bitIdx,
          writes |-> [st.writes EXCEPT ![row][col] = @ + 1]]
    ELSE st

\* body of "for (let i = 0; i < size; i++)": row = upward ? size - 1 - i : i; col = right - j, j = 0, 1
PlaceRow(st, reserved, bits, size, right, upward, i) ==
  LET row == IF upward THEN size - 1 - i ELSE i
  IN PlaceCell(PlaceCell(st, reserved, bits, row, right), reserved, bits, row, right - 1)

\* the walk without the step over column 6
SkipTimingNever(right) == right

\* "if (right === 6) right--"
SkipTiming(right) == IF right = 6 THEN right - 1 ELSE right

\* the values of right at which the body of "while (right >= 1)" sweeps a column pair
RECURSIVE SweepColumns(_)
SweepColumns(right) ==
  IF right < 1 THEN <<>>
  ELSE <<SkipTiming(right)>> \o SweepColumns(SkipTiming(right) - 2)

\* one sweep of the while loop; upward starts true and flips after every sweep
PlaceSweep(st, reserved, bits, size, right, upward) ==
  Loop(LAMBDA s, i : PlaceRow(s, reserved, bits, size, right, upward, i), 0, size - 1, st)

placeDataBits(matrix, reserved, codewords, size) ==
  LET bits == BytesToBits(codewords)
      cols == SweepColumns(size - 1)
  IN Loop(LAMBDA st, k : PlaceSweep(st, reserved, bits, size, cols[k], k % 2 = 1),
          1, Len(cols),
          [matrix |-> matrix, bitIdx |-> 0, writes |-> createEmptyMatrix(size)])

(***************************************************************************)
(* applyMask                                                               *)
(***************************************************************************)
\* the switch with row and column exchanged in the cases 1, 2 and 4
MaskInvertTransposed(mask, row, col) ==
  CASE mask = 0 -> (row + col) % 2 = 0
    [] mask = 1 -> col % 2 = 0
    [] mask = 2 -> row % 3 = 0
    [] mask = 3 -> (row + col) % 3 = 0
    [] mask = 4 -> ((col \div 2) + (row \div 3)) % 2 = 0
    [] mask = 5 -> ((row * col) % 2) + ((row * col) % 3) = 0
    [] mask = 6 -> (((row * col) % 2) + ((row * col) % 3)) % 2 = 0
    [] mask = 7 -> (((row + col) % 2) + ((row * col) % 3)) % 2 = 0
    [] OTHER -> FALSE

\* the switch of applyMask: does mask invert the cell (row, col)?
MaskInvert(mask, row, col) ==
  CASE mask = 0 -> (row + col) % 2 = 0
    [] mask = 1 -> row % 2 = 0
    [] mask = 2 -> col % 3 = 0
    [] mask = 3 -> (row + col) % 3 = 0
    [] mask = 4 -> ((row \div 2) + (col \div 3)) % 2 = 0
    [] mask = 5 -> ((row * col) % 2) + ((row * col) % 3) = 0
    [] mask = 6 -> (((row * col) % 2) + ((row * col) % 3)) % 2 = 0
    [] mask = 7 -> (((row + col) % 2) + ((row * col) % 3)) % 2 = 0
    [] OTHER -> FALSE

\* applyMask without the test of the reserved grid
applyMaskEverywhere(matrix, reserved, mask, size) ==
  Grid(size, LAMBDA row, col :
     IF MaskInvert(mask, row, col) THEN BitXor(matrix[row][col], 1)
     ELSE matrix[row][col])

applyMask(matrix, reserved, mask, size) ==
  Grid(size, LAMBDA row, col :
     IF reserved[row][col] # 0 THEN matrix[row][col]
     ELSE IF MaskInvert(mask, row, col) THEN BitXor(matrix[row][col], 1)
     ELSE matrix[row][col])

(***************************************************************************)
(* evaluatePenalty                                                         *)
(***************************************************************************)
RECURSIVE SumFn(_, _, _)
SumFn(f, i, n) == IF i > n THEN 0 ELSE f[i] + SumFn(f, i + 1, n)

\* a run of 5 or more scored 3 whatever its length
RunScoreFlat(count) == IF count >= 5 THEN 3 ELSE 0

\* "if (count >= 5) penalty += 3 + (count - 5)"
RunScore(count) == IF count >= 5 THEN 3 + (count - 5) ELSE 0

\* rule 1 along one line (a row or a column), from position k with the running count
RECURSIVE RunLoop(_, _, _, _)
RunLoop(line, k, count, size) ==
  IF k >= size THEN RunScore(count)
  ELSE IF line[k] = line[k - 1] THEN RunLoop(line, k + 1, count + 1, size)
  ELSE RunScore(count) + RunLoop(line, k + 1, 1, size)

RowOf(matrix, row) == matrix[row]
ColumnOf(matrix, col, size) == Strict([row \in 0..(size - 1) |-> matrix[row][col]])

PenaltyRule1(matrix, size) ==
  SumFn([row \in 0..(size - 1) |-> RunLoop(RowOf(matrix, row), 1, 1, size)], 0, size - 1)
  + SumFn([col \in 0..(size - 1) |-> RunLoop(ColumnOf(matrix, col, size), 1, 1, size)], 0, size - 1)

PenaltyRule2(matrix, size) ==
  3 * Cardinality({ p \in (0..(size - 2)) \X (0..(size - 2)) :
        /\ matrix[p[1]][p[2]] = matrix[p[1]][p[2] + 1]
        /\ matrix[p[1]][p[2]] = matrix[p[1] + 1][p[2]]
        /\ matrix[p[1]][p[2]] = matrix[p[1] + 1][p[2] + 1] })

pattern1 == <<1, 0, 1, 1, 1, 0, 1, 0, 0, 0, 0>>
pattern2 == <<0, 0, 0, 0, 1, 0, 1, 1, 1, 0, 1>>

\* match1 || match2 for the 11-cell window of line starting at k
WindowMatch(line, k) ==
  \/ \A i \in 0..10 : line[k + i] = pattern1[i + 1]
  \/ \A i \in 0..10 : line[k + i] = pattern2[i + 1]

LineRule3(line, size) == 40 * Cardinality({ k \in 0..(size - 11) : WindowMatch(line, k) })

PenaltyRule3(matrix, size) ==
  SumFn([row \in 0..(size - 1) |-> LineRule3(RowOf(matrix, row), size)], 0, size - 1)
  + SumFn([col \in 0..(size - 1) |-> LineRule3(ColumnOf(matrix, col, size), size)], 0, size - 1)

DarkCount(matrix, size) ==
  SumFn([row \in 0..(size - 1) |->
           Cardinality({ col \in 0..(size - 1) : matrix[row][col] # 0 })], 0, size - 1)

\* percent = darkCount * 100 / (size * size); prevFive = floor(percent / 5) * 5
PenaltyRule4(matrix, size) ==
  LET darkCount == DarkCount(matrix, size)
      prevFive == ((darkCount * 100) \div (size * size * 5)) * 5
      nextFive == prevFive + 5
  IN Min(Abs(prevFive - 50) \div 5, Abs(nextFive - 50) \div 5) * 10

evaluatePenalty(matrix, size) ==
  PenaltyRule1(matrix, size) + PenaltyRule2(matrix, size)
    + PenaltyRule3(matrix, size) + PenaltyRule4(matrix, size)

(***************************************************************************)
(* addFormatInfo                                                           *)
(***************************************************************************)
\* bits[i] = (formatInfo >> (14 - i)) & 1
FormatBits(mask) == BitsMsbFirst(FORMAT_INFO[mask + 1], 14)

\* the horizontal positions without the step over column 6
topLeftHOverTiming == << <<8, 0>>, <<8, 1>>, <<8, 2>>, <<8, 3>>, <<8, 4>>, <<8, 5>>, <<8, 6>>, <<8, 7>> >>

topLeftH == << <<8, 0>>, <<8, 1>>, <<8, 2>>, <<8, 3>>, <<8, 4>>, <<8, 5>>, <<8, 7>>, <<8, 8>> >>
topLeftV == << <<7, 8>>, <<5, 8>>, <<4, 8>>, <<3, 8>>, <<2, 8>>, <<1, 8>>, <<0, 8>> >>

\* the assignments with a bottom-left loop of 8 cells that starts at row size - 8
FormatWritesFromRowOfDarkModule(size) ==
  [i \in 1..8 |-> <<topLeftH[i][1], topLeftH[i][2], i - 1>>]
    \o [i \in 1..7 |-> <<topLeftV[i][1], topLeftV[i][2], 8 + (i - 1)>>]
    \o [i \in 1..8 |-> <<8, size - 1 - (i - 1), i - 1>>]
    \o [i \in 1..8 |-> <<size - 8 + (i - 1), 8, 7 + (i - 1)>>]

\* the assignments of addFormatInfo in program order: <<row, col, index into bits>>
FormatWrites(size) ==
  [i \in 1..8 |-> <<topLeftH[i][1], topLeftH[i][2], i - 1>>]
    \o [i \in 1..7 |-> <<topLeftV[i][1], topLeftV[i][2], 8 + (i - 1)>>]
    \o [i \in 1..8 |-> <<8, size - 1 - (i - 1), i - 1>>]
    \o [i \in 1..7 |-> <<size - 7 + (i - 1), 8, 8 + (i - 1)>>]

addFormatInfo(matrix, mask, size) ==
  LET bits == FormatBits(mask)
      writes == FormatWrites(size)
  IN Loop(LAMBDA m, k : Put(m, writes[k][1], writes[k][2], bits[writes[k][3] + 1]),
          1, Len(writes), matrix)

(***************************************************************************)
(* generateQR: rendering.  The SVG document is the record of its           *)
(* attributes: width, height, the background fill and the module rects in  *)
(* the order they are pushed.                                              *)
(***************************************************************************)
moduleSize == 8
margin == 4 * moduleSize

\* a module colour that ignores the dark flag
darkColorFixed(dark) == "#000"

darkColor(dark) == IF dark THEN "#fff" ELSE "#000"
lightColor(dark) == IF dark THEN "#00000000" ELSE "#fff"

\* a renderer that in dark mode draws the light modules instead of the dark ones
RowRectsInverted(matrix, y, dark) ==
  LET cells == SelectSeq([k \in 1..Cardinality(DOMAIN matrix[y]) |-> k - 1],
                         LAMBDA x : (matrix[y][x] # 0) # dark)
  IN [k \in 1..Len(cells) |->
        [x |-> margin + cells[k] * moduleSize, y |-> margin + y * moduleSize,
         width |-> moduleSize, height |-> moduleSize, fill |-> darkColor(dark)]]

\* the rects pushed with the row and the column exchanged in their positions
RowRectsTransposed(matrix, y, dark) ==
  LET cells == SelectSeq([k \in 1..Cardinality(DOMAIN matrix[y]) |-> k - 1],
                         LAMBDA x : matrix[y][x] # 0)
  IN [k \in 1..Len(cells) |->
        [x |-> margin + y * moduleSize, y |-> margin + cells[k] * moduleSize,
         width |-> moduleSize, height |-> moduleSize, fill |-> darkColor(dark)]]

\* the rects pushed for row y
RowRects(matrix, y, dark) ==
  LET cells == SelectSeq([k \in 1..Cardinality(DOMAIN matrix[y]) |-> k - 1],
                         LAMBDA x : matrix[y][x] # 0)
  IN [k \in 1..Len(cells) |->
        [x |-> margin + cells[k] * moduleSize, y |-> margin + y * moduleSize,
         width |-> moduleSize, height |-> moduleSize, fill |-> darkColor(dark)]]

RECURSIVE RectLoop(_, _, _)
RectLoop(matrix, y, dark) ==
  IF y >= Cardinality(DOMAIN matrix) THEN <<>>
  ELSE RowRects(matrix, y, dark) \o RectLoop(matrix, y + 1, dark)

RenderSvg(matrix, dark) ==
  LET size == Cardinality(DOMAIN matrix) * moduleSize + 2 * margin
  IN [width |-> size, height |-> size,
      background |-> lightColor(dark),
      rects |-> RectLoop(matrix, 0, dark)]

(***************************************************************************)
(* The callers' inputs.  A text argument is null, undefined or a string.   *)
(***************************************************************************)
Null == [kind |-> "null", units |-> <<>>]
UndefinedText == [kind |-> "undefined", units |-> <<>>]
String(u) == [kind |-> "string", units |-> u]

\* String(text): the string itself, or the words "null" and "undefined"
StringOf(t) ==
  CASE t.kind = "null" -> <<110, 117, 108, 108>>
    [] t.kind = "undefined" -> <<117, 110, 100, 101, 102, 105, 110, 101, 100>>
    [] OTHER -> t.units

\* the string made of n copies of the code unit c
Fill(c, n) == String([k \in 1..n |-> c])

\* the string made of n copies of the surrogate pair D83D DE00 (U+1F600)
Astral(n) == String([k \in 1..(2 * n) |-> IF k % 2 = 1 THEN 55357 ELSE 56832])

\* "A" (1 characters)
TextA == String(<<65>>)

\* "Hello World" (11 characters)
TextHello == String(<<72, 101, 108, 108, 111, 32, 87, 111, 114, 108, 100>>)

\* "https://example.com" (19 characters)
TextUrl == String(<<104, 116, 116, 112, 115, 58, 47, 47, 101, 120, 97, 109, 112, 108, 101, 46, 99, 111, 109>>)

\* "https://example.com/path?query=value&foo=bar" (44 characters)
TextUrlParams == String(<<104, 116, 116, 112, 115, 58, 47, 47, 101, 120, 97, 109, 112, 108, 101, 46, 99, 111, 109, 47, 112, 97, 116, 104, 63, 113, 117, 101, 114, 121, 61, 118, 97, 108, 117, 101, 38, 102, 111, 111, 61, 98, 97, 114>>)

\* "The quick brown fox jumps over the lazy dog. 1234567890" (55 characters)
TextFox == String(<<84, 104, 101, 32, 113, 117, 105, 99, 107, 32, 98, 114, 111, 119, 110, 32, 102, 111, 120, 32, 106, 117, 109, 112, 115, 32, 111, 118, 101, 114, 32, 116, 104, 101, 32, 108, 97, 122, 121, 32, 100, 111, 103, 46, 32, 49, 50, 51, 52, 53, 54, 55, 56, 57, 48>>)

\* the largest byte count getMinVersion accepts
Capacity == capacities[Len(capacities)]

\* strings with white space at the ends: " A", "A ", tab "A B" newline, " ", ""
PaddedTexts ==
  { String(<<32, 65>>), String(<<65, 32>>), String(<<9, 65, 32, 66, 10>>),
    String(<<32>>), String(<<>>) }

\* ASCII strings around the version boundaries, up to MaxFill characters
FillTexts ==
  { Fill(97, n) : n \in {17, 18, 78, 106, 107, Capacity} \cup (Capacity + 1)..MaxFill }

\* strings with characters outside ASCII: U+00E9 (2 bytes), U+20AC (3 bytes), U+1F600 (4 bytes)
WideTexts ==
  { Fill(233, 1), Fill(233, Capacity \div 2), Fill(233, (Capacity \div 2) + 1),
    Fill(8364, 1), Astral(1), Astral(MaxAstral) }

\* the URLs of the scanner test's bug reports: storage.googleapis.com/... (115 characters),
\* www.barnimerland.de/... (107 characters), meduza.io/... (167 characters)
bugReportUrls ==
  <<
    String(<<104, 116, 116, 112, 115, 58, 47, 47, 115, 116, 111, 114, 97, 103, 101, 46, 103,
           111, 111, 103, 108, 101, 97, 112, 105, 115, 46, 99, 111, 109, 47, 105, 115, 116,
           111, 114, 105, 101, 115, 47, 115, 116, 111, 114, 105, 101, 115, 47, 50, 48, 50,
           52, 47, 48, 55, 47, 49, 55, 47, 107, 111, 112, 105, 105, 45, 97, 109, 101, 114,
           105, 107, 97, 110, 115, 107, 105, 107, 104, 45, 98, 101, 115, 112, 105, 108, 111,
           116, 110, 105, 107, 111, 118, 45, 100, 108, 121, 97, 45, 114, 111, 115, 115, 105,
           105, 47, 105, 110, 100, 101, 120, 46, 104, 116, 109, 108>>),
    String(<<104, 116, 116, 112, 115, 58, 47, 47, 119, 119, 119, 46, 98, 97, 114, 110, 105,
           109, 101, 114, 108, 97, 110, 100, 46, 100, 101, 47, 100, 101, 47, 98, 101, 119,
           101, 103, 98, 97, 114, 47, 119, 97, 115, 115, 101, 114, 47, 97, 110, 98, 105,
           101, 116, 101, 114, 47, 97, 114, 116, 105, 107, 101, 108, 45, 115, 116, 97, 110,
           100, 45, 117, 112, 45, 112, 97, 100, 100, 108, 101, 45, 118, 101, 114, 108, 101,
           105, 104, 45, 119, 101, 114, 98, 101, 108, 108, 105, 110, 107, 97, 110, 97, 108,
           46, 104, 116, 109, 108>>),
    String(<<104, 116, 116, 112, 115, 58, 47, 47, 109, 101, 100, 117, 122, 97, 46, 105, 111,
           47, 110, 101, 119, 115, 47, 50, 48, 50, 54, 47, 48, 50, 47, 50, 55, 47, 118, 45,
           109, 101, 116, 114, 111, 45, 98, 101, 114, 108, 105, 110, 97, 45, 112, 111, 121,
           97, 118, 105, 108, 105, 115, 45, 112, 108, 97, 107, 97, 116, 121, 45, 110, 97,
           45, 114, 117, 115, 115, 107, 111, 109, 45, 101, 121, 45, 105, 109, 101, 121, 45,
           104, 111, 116, 45, 107, 97, 112, 108, 121, 117, 45, 117, 118, 97, 122, 104, 101,
           110, 105, 121, 97, 45, 109, 117, 100, 97, 107, 45, 115, 100, 101, 108, 97, 121,
           45, 116, 101, 108, 101, 102, 111, 110, 45, 112, 111, 116, 105, 115, 104, 101, 45,
           110, 105, 107, 116, 111, 45, 110, 101, 45, 122, 110, 97, 101, 116, 45, 107, 116,
           111, 45, 101, 116, 111, 45, 115, 100, 101, 108, 97, 108>>)
  >>

\* "fN": masks 5 and 6 share the lowest penalty score
TextTie == String(<<102, 78>>)

Texts ==
  { Null, UndefinedText, TextA, TextHello, TextUrl, TextUrlParams, TextFox, TextTie }
    \cup PaddedTexts \cup FillTexts \cup WideTexts
    \cup { bugReportUrls[i] : i \in 1..Len(bugReportUrls) }

\* the inputs of the runs that compare two calls
PairTexts == { Null, String(<<>>), TextA, TextTie, String(<<32, 65>>), Fill(97, Capacity + 1) }

(***************************************************************************)
(* State: the arguments and locals of the call of generateQR in progress.  *)
(***************************************************************************)
VARIABLES
  pc,             \* position of the call: "idle", a statement of generateQR/createQRCode, "returned", "thrown"
  text, dark,     \* the arguments of generateQR
  str,            \* String(text).trim()
  dataBytes, version, bits, dataCodewords, interleaved,
  size, matrix, reserved,
  writes,         \* history: number of assignments placeDataBits made to each cell
  flips,          \* history: number of times applyMask inverted each cell of matrix
  mask, testMatrix, bestMask, bestScore,
  scores,         \* history: the scores of the trial masks, in loop order
  svg,            \* the value returned by generateQR
  error,          \* the message of the Error thrown
  prev,           \* the outcome of the previous call, when the caller kept it
  probeN, probeV  \* argument and result of a direct application of getMinVersion

callVars == <<text, dark>>
encVars == <<str, dataBytes, version, bits, dataCodewords, interleaved>>
gridVars == <<size, matrix, reserved, writes, flips>>
maskVars == <<mask, testMatrix, bestMask, bestScore, scores>>
outVars == <<svg, error>>
envVars == <<prev, probeN, probeV>>
vars == <<pc, callVars, encVars, gridVars, maskVars, outVars, envVars, tableVars>>

\* a local that has not been assigned
NoSeq == <<>>
NoGrid == <<>>
NoSvg == [width |-> 0, height |-> 0, background |-> "", rects |-> <<>>]
NoError == ""
NoCall == [text |-> Null, dark |-> FALSE, svg |-> NoSvg, error |-> NoError, pc |-> "idle"]

\* let bestScore = Infinity
Infinity == -1

\* the comparison written "score <= bestScore"
ScoreLessOrEqual(score, best) == best = Infinity \/ score <= best

\* score < bestScore
ScoreLess(score, best) == best = Infinity \/ score < best

FreshLocals ==
  /\ str = NoSeq /\ dataBytes = NoSeq /\ version = Undefined /\ bits = NoSeq
  /\ dataCodewords = NoSeq /\ interleaved = NoSeq
  /\ size = Undefined /\ matrix = NoGrid /\ reserved = NoGrid
  /\ writes = NoGrid /\ flips = NoGrid
  /\ mask = Undefined /\ testMatrix = NoGrid /\ bestMask = Undefined
  /\ bestScore = Undefined /\ scores = <<>>
  /\ svg = NoSvg /\ error = NoError

Init ==
  /\ pc = "idle"
  /\ text = Null /\ dark = FALSE
  /\ FreshLocals
  /\ prev = NoCall
  /\ probeN = Undefined /\ probeV = Undefined
  /\ GF_EXP = initGF.exp /\ GF_LOG = initGF.log

\* the locals of a call that starts
ResetLocals ==
  /\ str' = NoSeq /\ dataBytes' = NoSeq /\ version' = Undefined /\ bits' = NoSeq
  /\ dataCodewords' = NoSeq /\ interleaved' = NoSeq
  /\ size' = Undefined /\ matrix' = NoGrid /\ reserved' = NoGrid
  /\ writes' = NoGrid /\ flips' = NoGrid
  /\ mask' = Undefined /\ testMatrix' = NoGrid /\ bestMask' = Undefined
  /\ bestScore' = Undefined /\ scores' = <<>>
  /\ svg' = NoSvg /\ error' = NoError

\* entering generateQR(t, {dark: d}): fresh locals
Enter(t, d) ==
  /\ pc \in {"idle", "returned", "thrown"}
  /\ pc' = "checkNull"
  /\ text' = t /\ dark' = d
  /\ ResetLocals
  /\ UNCHANGED <<probeN, probeV, tableVars>>

\* a call whose caller drops the outcome of the call before
Call(t, d) == Enter(t, d) /\ prev' = prev

\* a call whose caller keeps the outcome of the call before
CallAgain(t, d) ==
  /\ Enter(t, d)
  /\ prev' = IF pc = "idle" THEN prev
             ELSE [text |-> text, dark |-> dark, svg |-> svg, error |-> error, pc |-> pc]

\* throw new Error(msg)
Throw(msg) == pc' = "thrown" /\ error' = msg /\ svg' = svg

\* the test written "text === null" alone
IsNull(t) == t.kind = "null"

\* if (text === null || text === undefined) throw
IsNullish(t) == t.kind = "null" \/ t.kind = "undefined"

CheckNull ==
  /\ pc = "checkNull"
  /\ ~IsNullish(text)
  /\ pc' = "trim"
  /\ UNCHANGED <<callVars, encVars, gridVars, maskVars, outVars, envVars, tableVars>>

ThrowNull ==
  /\ pc = "checkNull"
  /\ IsNullish(text)
  /\ Throw("QR text cannot be null or undefined")
  /\ UNCHANGED <<callVars, encVars, gridVars, maskVars, envVars, tableVars>>

\* const str = String(text).trim(); if (str.length === 0) throw
TrimText ==
  /\ pc = "trim"
  /\ Len(Trim(StringOf(text))) # 0
  /\ str' = Trim(StringOf(text))
  /\ pc' = "encode"
  /\ UNCHANGED <<callVars, dataBytes, version, bits, dataCodewords, interleaved,
                 gridVars, maskVars, outVars, envVars, tableVars>>

ThrowEmpty ==
  /\ pc = "trim"
  /\ Len(Trim(StringOf(text))) = 0
  /\ str' = Trim(StringOf(text))
  /\ Throw("QR text cannot be empty")
  /\ UNCHANGED <<callVars, dataBytes, version, bits, dataCodewords, interleaved,
                 gridVars, maskVars, envVars, tableVars>>

\* createQRCode: const dataBytes = encodeByteMode(data)
EncodeBytes ==
  /\ pc = "encode"
  /\ dataBytes' = encodeByteMode(str)
  /\ pc' = "version"
  /\ UNCHANGED <<callVars, str, version, bits, dataCodewords, interleaved,
                 gridVars, maskVars, outVars, envVars, tableVars>>

\* const vInfo = VERSION_INFO[version]: null at index 0 and undefined beyond the table
HasVersionInfo(v) == v \in 1..Len(VERSION_INFO)

\* const version = getMinVersion(dataBytes.length); if (!version) throw;
\* const vInfo = VERSION_INFO[version]; if (!vInfo) throw
SelectVersion ==
  /\ pc = "version"
  /\ getMinVersion(Len(dataBytes)) # NoVersion
  /\ version' = getMinVersion(Len(dataBytes))
  /\ IF HasVersionInfo(version')
       THEN pc' = "bits" /\ UNCHANGED outVars
       ELSE Throw("Invalid QR version")
  /\ UNCHANGED <<callVars, str, dataBytes, bits, dataCodewords, interleaved,
                 gridVars, maskVars, envVars, tableVars>>

ThrowTooLong ==
  /\ pc = "version"
  /\ getMinVersion(Len(dataBytes)) = NoVersion
  /\ version' = NoVersion
  /\ Throw("Data too long for QR code")
  /\ UNCHANGED <<callVars, str, dataBytes, bits, dataCodewords, interleaved,
                 gridVars, maskVars, envVars, tableVars>>

\* mode indicator, count, data, terminator, padding
BuildBitStream ==
  /\ pc = "bits"
  /\ bits' = BuildBits(dataBytes, version)
  /\ pc' = "codewords"
  /\ UNCHANGED <<callVars, str, dataBytes, version, dataCodewords, interleaved,
                 gridVars, maskVars, outVars, envVars, tableVars>>

\* convert to codewords
PackCodewords ==
  /\ pc = "codewords"
  /\ dataCodewords' = ToCodewords(bits)
  /\ pc' = "blocks"
  /\ UNCHANGED <<callVars, str, dataBytes, version, bits, interleaved,
                 gridVars, maskVars, outVars, envVars, tableVars>>

\* split into blocks, generate EC, interleave
InterleaveBlocks ==
  /\ pc = "blocks"
  /\ interleaved' = Interleave(dataCodewords, version)
  /\ GF_EXP' = ExpAfterRsEncode(GF_EXP)
  /\ pc' = "alloc"
  /\ UNCHANGED <<callVars, str, dataBytes, version, bits, dataCodewords,
                 gridVars, maskVars, outVars, envVars, GF_LOG>>

\* const size = version * 4 + 17; matrix = createEmptyMatrix(size); reserved = createEmptyMatrix(size)
AllocateMatrix ==
  /\ pc = "alloc"
  /\ size' = SizeOf(version)
  /\ matrix' = createEmptyMatrix(SizeOf(version))
  /\ reserved' = createEmptyMatrix(SizeOf(version))
  /\ pc' = "finder"
  /\ UNCHANGED <<callVars, encVars, writes, flips, maskVars, outVars, envVars, tableVars>>

\* addFinderPatterns(matrix, reserved, size)
AddFinder ==
  /\ pc = "finder"
  /\ LET g == addFinderPatterns([matrix |-> matrix, reserved |-> reserved], size)
     IN matrix' = g.matrix /\ reserved' = g.reserved
  /\ pc' = "alignment"
  /\ UNCHANGED <<callVars, encVars, size, writes, flips, maskVars, outVars, envVars, tableVars>>

\* addAlignmentPatterns(matrix, reserved, version, size)
AddAlignment ==
  /\ pc = "alignment"
  /\ LET g == addAlignmentPatterns([matrix |-> matrix, reserved |-> reserved], version, size)
     IN matrix' = g.matrix /\ reserved' = g.reserved
  /\ pc' = "timing"
  /\ UNCHANGED <<callVars, encVars, size, writes, flips, maskVars, outVars, envVars, tableVars>>

\* addTimingPatterns(matrix, reserved, size)
AddTiming ==
  /\ pc = "timing"
  /\ LET g == addTimingPatterns([matrix |-> matrix, reserved |-> reserved], size)
     IN matrix' = g.matrix /\ reserved' = g.reserved
  /\ pc' = "darkModule"
  /\ UNCHANGED <<callVars, encVars, size, writes, flips, maskVars, outVars, envVars, tableVars>>

\* matrix[row][8] = 1 throws a TypeError when matrix[row] is undefined
AddDark ==
  /\ pc = "darkModule"
  /\ IF DarkModuleRow(version) \in 0..(size - 1)
       THEN /\ LET g == addDarkModule([matrix |-> matrix, reserved |-> reserved], version)
               IN matrix' = g.matrix /\ reserved' = g.reserved
            /\ pc' = "reserveFormat"
            /\ UNCHANGED outVars
       ELSE /\ Throw("TypeError")
            /\ UNCHANGED <<matrix, reserved>>
  /\ UNCHANGED <<callVars, encVars, size, writes, flips, maskVars, envVars, tableVars>>

ReserveFormat ==
  /\ pc = "reserveFormat"
  /\ reserved' = reserveFormatAreas(reserved, size)
  /\ pc' = "place"
  /\ UNCHANGED <<callVars, encVars, size, matrix, writes, flips, maskVars, outVars, envVars, tableVars>>

\* placeDataBits(matrix, reserved, interleaved, size); then bestMask = 0, bestScore = Infinity
PlaceData ==
  /\ pc = "place"
  /\ LET st == placeDataBits(matrix, reserved, interleaved, size)
     IN matrix' = st.matrix /\ writes' = st.writes
  /\ flips' = createEmptyMatrix(size)
  /\ bestMask' = 0 /\ bestScore' = Infinity /\ mask' = 0
  /\ pc' = "trial"
  /\ UNCHANGED <<callVars, encVars, size, reserved, testMatrix, scores, outVars, envVars, tableVars>>

\* history: flips with one more for every cell whose value differs between before and after
CountFlips(count, before, after) ==
  Grid(Cardinality(DOMAIN before), LAMBDA r, c :
         count[r][c] + (IF after[r][c] # before[r][c] THEN 1 ELSE 0))

\* a copy written "[...matrix]": a new outer array whose rows are the rows of matrix
TrialSharesRowsShallow == TRUE

\* "const testMatrix = matrix.map((row) => [...row])": every row is a new array,
\* so testMatrix shares no row with matrix
TrialSharesRows == FALSE

\* one iteration of "for (let mask = 0; mask < 8; mask++)"; applyMask writes
\* into the rows of testMatrix, which reaches matrix only if they are shared
TrialMask ==
  /\ pc = "trial"
  /\ mask < 8
  /\ testMatrix' = applyMask(matrix, reserved, mask, size)
  /\ matrix' = IF TrialSharesRows THEN testMatrix' ELSE matrix
  /\ flips' = CountFlips(flips, matrix, matrix')
  /\ LET score == evaluatePenalty(testMatrix', size)
     IN /\ scores' = Append(scores, score)
        /\ IF ScoreLess(score, bestScore)
             THEN bestScore' = score /\ bestMask' = mask
             ELSE UNCHANGED <<bestScore, bestMask>>
  /\ mask' = mask + 1
  /\ pc' = IF mask + 1 < 8 THEN "trial" ELSE "applyMask"
  /\ UNCHANGED <<callVars, encVars, size, reserved, writes, outVars, envVars, tableVars>>

\* applyMask(matrix, reserved, bestMask, size)
ApplyBestMask ==
  /\ pc = "applyMask"
  /\ matrix' = applyMask(matrix, reserved, bestMask, size)
  /\ flips' = CountFlips(flips, matrix, matrix')
  /\ pc' = "format"
  /\ UNCHANGED <<callVars, encVars, size, reserved, writes, maskVars, outVars, envVars, tableVars>>

\* addFormatInfo(matrix, bestMask, size); return matrix
WriteFormat ==
  /\ pc = "format"
  /\ matrix' = addFormatInfo(matrix, bestMask, size)
  /\ pc' = "render"
  /\ UNCHANGED <<callVars, encVars, size, reserved, writes, flips, maskVars, outVars, envVars, tableVars>>

\* generateQR: build the SVG from the matrix and return it
Render ==
  /\ pc = "render"
  /\ svg' = RenderSvg(matrix, dark)
  /\ error' = error
  /\ pc' = "returned"
  /\ UNCHANGED <<callVars, encVars, gridVars, maskVars, envVars, tableVars>>

\* the statements of one call
Step ==
  \/ CheckNull \/ ThrowNull \/ TrimText \/ ThrowEmpty
  \/ EncodeBytes \/ SelectVersion \/ ThrowTooLong
  \/ BuildBitStream \/ PackCodewords \/ InterleaveBlocks
  \/ AllocateMatrix \/ AddFinder \/ AddAlignment \/ AddTiming \/ AddDark \/ ReserveFormat
  \/ PlaceData \/ TrialMask \/ ApplyBestMask \/ WriteFormat \/ Render

Next == (\E t \in Texts, d \in BOOLEAN : Call(t, d)) \/ Step

Spec == Init /\ [][Next]_vars

\* runs in which the caller keeps the outcome of the previous call
NextPair == (\E t \in PairTexts, d \in BOOLEAN : CallAgain(t, d)) \/ Step

SpecPair == Init /\ [][NextPair]_vars

(***************************************************************************)
(* Direct application of getMinVersion to a byte count.                    *)
(***************************************************************************)
InitProbe ==
  /\ pc = "probe"
  /\ text = Null /\ dark = FALSE
  /\ FreshLocals
  /\ prev = NoCall
  /\ probeN \in 0..MaxProbe /\ probeV = Undefined
  /\ GF_EXP = initGF.exp /\ GF_LOG = initGF.log

ApplyGetMinVersion ==
  /\ pc = "probe"
  /\ probeV' = getMinVersion(probeN)
  /\ pc' = "probed"
  /\ UNCHANGED <<callVars, encVars, gridVars, maskVars, outVars, prev, probeN, tableVars>>

NextProbe == ApplyGetMinVersion

SpecProbe == InitProbe /\ [][NextProbe]_vars

(***************************************************************************)
(* getMinVersion against the capacity table.                               *)
(***************************************************************************)
\* C2: getMinVersion(n) is the smallest version in 1..6 whose byte-mode
\* capacity (17, 32, 53, 78, 106, 134) is at least n, and it is no version
\* (null) exactly when n > 134; a 1-byte input selects version 1.
C2_MinVersion ==
  LET capacity == <<17, 32, 53, 78, 106, 134>>
  IN pc = "probed" =>
       /\ (probeV = NoVersion) <=> (probeN > 134)
       /\ probeV # NoVersion =>
            /\ probeV \in 1..6
            /\ capacity[probeV] >= probeN
            /\ \A v \in 1..6 : capacity[v] >= probeN => probeV <= v
       /\ probeN = 1 => probeV = 1

\* a byte count just above the capacity of version 5 has selected version 6
C2_Witness == pc = "probed" /\ probeN = 107 /\ probeV = 6

(***************************************************************************)
(* A reader of the symbol, written from the symbology standard             *)
(* (ISO/IEC 18004) and not from the encoder: it takes the returned matrix  *)
(* and yields the bytes of the message, or ReadFailure.                    *)
(***************************************************************************)
ReadFailure == <<-1>>

\* the version of a symbol with the given side length
SymbolVersion(n) == (n - 17) \div 4

\* function modules of versions 1..6: finder patterns with separators and
\* format information, timing patterns, the alignment pattern, the dark module
IsFunctionModule(n, r, c) ==
  \/ r <= 8 /\ c <= 8
  \/ r <= 8 /\ c >= n - 8
  \/ r >= n - 8 /\ c <= 8
  \/ r = 6 \/ c = 6
  \/ SymbolVersion(n) >= 2 /\ Abs(r - (n - 7)) <= 2 /\ Abs(c - (n - 7)) <= 2

\* data mask patterns 000..111, i the row and j the column
MaskCondition(id, i, j) ==
  CASE id = 0 -> (i + j) % 2 = 0
    [] id = 1 -> i % 2 = 0
    [] id = 2 -> j % 3 = 0
    [] id = 3 -> (i + j) % 3 = 0
    [] id = 4 -> ((i \div 2) + (j \div 3)) % 2 = 0
    [] id = 5 -> ((i * j) % 2) + ((i * j) % 3) = 0
    [] id = 6 -> (((i * j) % 2) + ((i * j) % 3)) % 2 = 0
    [] id = 7 -> (((i + j) % 2) + ((i * j) % 3)) % 2 = 0

\* remainder of the polynomial v (bits, top at position hi) divided by g (degree 10)
RECURSIVE BchRemainder(_, _, _)
BchRemainder(v, g, hi) ==
  IF hi < 10 THEN v
  ELSE BchRemainder(IF BitAt(v, hi) = 1 THEN BitXor(v, g * Pow2(hi - 10)) ELSE v, g, hi - 1)

\* the 15 format bits next to the top-left finder, bit 14 first:
\* row 8 columns 0..5, 7, 8, then column 8 rows 7, 5..0
FormatModules ==
  <<  <<8, 0>>, <<8, 1>>, <<8, 2>>, <<8, 3>>, <<8, 4>>, <<8, 5>>, <<8, 7>>, <<8, 8>>,
      <<7, 8>>, <<5, 8>>, <<4, 8>>, <<3, 8>>, <<2, 8>>, <<1, 8>>, <<0, 8>> >>

RECURSIVE BitsToNumber(_, _, _)
BitsToNumber(m, k, acc) ==
  IF k > Len(FormatModules) THEN acc
  ELSE BitsToNumber(m, k + 1, 2 * acc + m[FormatModules[k][1]][FormatModules[k][2]])

\* the format information with the mask 101010000010010 removed
ReadFormat(m) == BitXor(BitsToNumber(m, 1, 0), 21522)

\* a valid format word is a multiple of the generator 10100110111
FormatValid(f) == BchRemainder(f, 1335, 14) = 0

\* the k-th module (from 0) of the zig-zag: column pairs from the right, skipping
\* column 6, alternately upwards and downwards, right column before left
ZigZagModule(n, k) ==
  LET pair == k \div (2 * n)
      right == IF n - 1 - 2 * pair >= 7 THEN n - 1 - 2 * pair ELSE n - 2 - 2 * pair
      vert == (k % (2 * n)) \div 2
      row == IF pair % 2 = 0 THEN n - 1 - vert ELSE vert
  IN <<row, right - (k % 2)>>

\* the data modules in reading order, each with its mask removed
ReadModules(m, n, id) ==
  LET all == [k \in 1..(n * (n - 1)) |-> ZigZagModule(n, k - 1)]
      data == SelectSeq(all, LAMBDA rc : ~IsFunctionModule(n, rc[1], rc[2]))
  IN Strict([k \in 1..Len(data) |->
       LET i == data[k][1]
           j == data[k][2]
       IN IF MaskCondition(id, i, j) THEN 1 - m[i][j] ELSE m[i][j]])

\* value of the 8 bits from position k (from 1)
ByteAt(bitSeq, k) ==
  128 * bitSeq[k] + 64 * bitSeq[k + 1] + 32 * bitSeq[k + 2] + 16 * bitSeq[k + 3]
    + 8 * bitSeq[k + 4] + 4 * bitSeq[k + 5] + 2 * bitSeq[k + 6] + bitSeq[k + 7]

\* codewords, blocks and error correction codewords per block at level L
SymbolCodewords(v) == <<26, 44, 70, 100, 134, 172>>[v]
SymbolBlocks(v) == <<1, 1, 1, 1, 1, 2>>[v]
SymbolEcPerBlock(v) == <<7, 10, 15, 20, 26, 18>>[v]

\* the codewords of block b (from 0), data then error correction, de-interleaved
BlockCodewords(cw, v, b) ==
  LET nb == SymbolBlocks(v)
      len == SymbolCodewords(v) \div nb
  IN [k \in 1..len |-> cw[(k - 1) * nb + b + 1]]

\* the block is a code word: its polynomial vanishes at alpha^0 .. alpha^(ec-1)
Syndrome(block, j) ==
  Loop(LAMBDA acc, k : BitXor(gfMul(acc, GF_EXP[j]), block[k]), 1, Len(block), 0)

BlockValid(block, ec) == \A j \in 0..(ec - 1) : Syndrome(block, j) = 0

\* the message: mode indicator 0100, 8-bit count, then that many bytes
ParseByteMode(stream) ==
  IF Len(stream) < 2 \/ stream[1] \div 16 # 4 THEN ReadFailure
  ELSE LET nibbles == [k \in 1..(2 * Len(stream)) |->
                         IF k % 2 = 1 THEN stream[(k + 1) \div 2] \div 16
                         ELSE stream[k \div 2] % 16]
           count == 16 * nibbles[2] + nibbles[3]
       IN IF 2 * count + 3 > Len(nibbles) THEN ReadFailure
          ELSE [k \in 1..count |-> 16 * nibbles[2 * k + 2] + nibbles[2 * k + 3]]

ReadSymbol(m) ==
  LET n == Cardinality(DOMAIN m)
      v == SymbolVersion(n)
      f == ReadFormat(m)
  IN IF ~(v \in 1..6 /\ n = 4 * v + 17) \/ ~FormatValid(f) \/ f \div 8192 # 1
       THEN ReadFailure
     ELSE LET id == (f \div 1024) % 8
              bitSeq == ReadModules(m, n, id)
              cw == Strict([k \in 1..SymbolCodewords(v) |-> ByteAt(bitSeq, 8 * k - 7)])
              nb == SymbolBlocks(v)
              ec == SymbolEcPerBlock(v)
              dataLen == (SymbolCodewords(v) \div nb) - ec
              blocks == [b \in 1..nb |-> Strict(BlockCodewords(cw, v, b - 1))]
          IN IF Len(bitSeq) < 8 * SymbolCodewords(v)
                  \/ \E b \in 1..nb : ~BlockValid(blocks[b], ec)
               THEN ReadFailure
             ELSE ParseByteMode(
                    Strict([k \in 1..(nb * dataLen) |->
                      blocks[((k - 1) \div dataLen) + 1][((k - 1) % dataLen) + 1]]))

(***************************************************************************)
(* Round trip.                                                             *)
(***************************************************************************)
IsAscii(u) == \A k \in 1..Len(u) : u[k] < 128

\* C1 as stated: every non-empty ASCII string of at most 134 bytes is
\* accepted and its symbol reads back as exactly that string.
C1_RoundTripAsStated ==
  (text.kind = "string" /\ Len(text.units) \in 1..134 /\ IsAscii(text.units)) =>
    /\ pc # "thrown"
    /\ pc = "returned" => ReadSymbol(matrix) = text.units

\* C1: every ASCII string of at most 134 bytes that is not empty once its
\* leading and trailing white space is removed is accepted, and its symbol
\* reads back as exactly the string with that white space removed.
C1_RoundTripTrimmed ==
  (text.kind = "string" /\ Len(text.units) \in 1..134 /\ IsAscii(text.units)
     /\ Trim(text.units) # <<>>) =>
    /\ pc # "thrown"
    /\ pc = "returned" => ReadSymbol(matrix) = Trim(text.units)

\* the version 6 symbol of a 134-byte string has been returned and read back
C1_Witness ==
  /\ pc = "returned"
  /\ Len(text.units) = 134 /\ IsAscii(text.units) /\ version = 6
  /\ ReadSymbol(matrix) = text.units

(***************************************************************************)
(* Rejections.                                                             *)
(***************************************************************************)
\* bytes of the UTF-8 encoding of a string of UTF-16 code units: a surrogate
\* pair is one character of 4 bytes, a lone surrogate becomes U+FFFD (3 bytes)
IsHighSurrogate(c) == c >= 55296 /\ c <= 56319
IsLowSurrogate(c) == c >= 56320 /\ c <= 57343

Utf8UnitLength(u, k) ==
  CASE u[k] < 128 -> 1
    [] u[k] >= 128 /\ u[k] < 2048 -> 2
    [] IsLowSurrogate(u[k]) /\ k > 1 /\ IsHighSurrogate(u[k - 1]) -> 1
    [] OTHER -> 3

Utf8Length(u) == Loop(LAMBDA n, k : n + Utf8UnitLength(u, k), 1, Len(u), 0)

TooLong == "Data too long for QR code"

\* C3 as stated: a call with a text that is not empty after trimming ends with
\* the error 'Data too long for QR code' exactly when the UTF-8 length of the
\* trimmed text exceeds 134 bytes.
C3_TooLongExactly ==
  (pc \in {"returned", "thrown"} /\ text.kind = "string" /\ Trim(text.units) # <<>>) =>
    ((pc = "thrown" /\ error = TooLong) <=> (Utf8Length(Trim(text.units)) > 134))

\* C4: a call with null, undefined or a text that is empty after trimming is
\* never past the two checks of generateQR: it ends thrown with an error
\* message, and no bytes, version or matrix have been computed.
C4_RejectedEarly ==
  (pc # "idle" /\ (IsNullish(text) \/ Trim(text.units) = <<>>)) =>
    /\ pc \in {"checkNull", "trim", "thrown"}
    /\ pc = "thrown" => error \in {"QR text cannot be null or undefined", "QR text cannot be empty"}
    /\ dataBytes = NoSeq /\ version = Undefined /\ bits = NoSeq
    /\ size = Undefined /\ matrix = NoGrid /\ reserved = NoGrid /\ svg = NoSvg

\* undefined has been rejected
C4_Witness ==
  pc = "thrown" /\ text = UndefinedText /\ error = "QR text cannot be null or undefined"

\* the returned SVG has the document size of the matrix, a background and one
\* rect for every dark module of a full size x size matrix
SvgComplete ==
  /\ DOMAIN matrix = 0..(size - 1)
  /\ \A r \in 0..(size - 1) : DOMAIN matrix[r] = 0..(size - 1)
  /\ svg.width = size * 8 + 64 /\ svg.height = svg.width
  /\ svg.background # ""
  /\ Len(svg.rects) =
       Cardinality({rc \in (0..(size - 1)) \X (0..(size - 1)) : matrix[rc[1]][rc[2]] = 1})

\* the statements after createEmptyMatrix, in program order
AfterAllocation ==
  << "finder", "alignment", "timing", "darkModule", "reserveFormat", "place",
     "trial", "applyMask", "format", "render", "returned" >>

\* how far a call that has allocated its matrix has come
Progress(p, m) ==
  LET at == CHOOSE k \in 1..Len(AfterAllocation) : AfterAllocation[k] = p
  IN 8 * at + (IF p = "trial" THEN m ELSE 0)

\* C5: a call that has thrown has allocated no matrix and built no SVG; once
\* the matrix is allocated the call is at a statement after createEmptyMatrix
\* or has returned, every step it takes brings it nearer to the return and
\* none is a throw, and what it returns is a complete SVG.
C5_NoPartialResult ==
  /\ [](pc = "thrown" => (matrix = NoGrid /\ svg = NoSvg))
  /\ [](matrix # NoGrid =>
          /\ \E k \in 1..Len(AfterAllocation) : AfterAllocation[k] = pc
          /\ pc = "trial" => mask \in 0..7)
  /\ [][(matrix # NoGrid /\ pc # "returned") =>
          (pc' # "thrown" /\ Progress(pc', mask') > Progress(pc, mask))]_vars
  /\ [](pc = "returned" => SvgComplete)

\* a call that allocated a 41 x 41 matrix has returned its SVG
C5_Witness ==
  pc = "returned" /\ version = 6 /\ matrix # NoGrid /\ svg.width = 392 /\ Len(svg.rects) > 0

(***************************************************************************)
(* Reserved cells, placement and masking.                                  *)
(***************************************************************************)
Cells == (0..(size - 1)) \X (0..(size - 1))

\* the two grids as they are when all function patterns have been drawn
DrawnPatterns ==
  addDarkModule(
    addTimingPatterns(
      addAlignmentPatterns(
        addFinderPatterns(
          [matrix |-> createEmptyMatrix(size), reserved |-> createEmptyMatrix(size)], size),
        version, size),
      size),
    version)

\* grid b has the value of grid a in every cell marked in reserved
SameOnReserved(a, b) ==
  \A rc \in Cells : reserved[rc[1]][rc[2]] # 0 => b[rc[1]][rc[2]] = a[rc[1]][rc[2]]

\* C6: placeDataBits, every trial masking and the final applyMask leave the
\* value of every reserved cell as it was; the cells of the finder patterns,
\* separators, alignment pattern, timing patterns and dark module hold in the
\* returned matrix the values they were drawn with.
C6_ReservedUntouched ==
  /\ [][/\ pc = "place" => SameOnReserved(matrix, matrix')
        /\ pc = "trial" => SameOnReserved(matrix, testMatrix')
        /\ pc = "applyMask" => SameOnReserved(matrix, matrix')]_vars
  /\ [](pc = "returned" =>
          LET drawn == DrawnPatterns
          IN \A rc \in Cells :
               drawn.reserved[rc[1]][rc[2]] # 0 =>
                 matrix[rc[1]][rc[2]] = drawn.matrix[rc[1]][rc[2]])

\* a version 6 symbol has been returned whose mask inverts cells of the
\* alignment pattern's position, and the pattern's dark centre is intact
C6_Witness ==
  /\ pc = "returned" /\ version = 6
  /\ reserved[34][34] = 1 /\ matrix[34][34] = 1
  /\ MaskInvert(bestMask, 34, 34)

\* C7: once data placement has run, it has written every non-reserved cell
\* exactly once and no reserved cell; the working matrix is inverted only by
\* the one applyMask call with the selected mask, at most once per cell and
\* only in non-reserved cells the mask selects; no trial masking changes it.
C7_WrittenOnceMaskedOnce ==
  /\ [](writes # NoGrid =>
          \A rc \in Cells :
            /\ writes[rc[1]][rc[2]] = (IF reserved[rc[1]][rc[2]] = 0 THEN 1 ELSE 0)
            /\ flips[rc[1]][rc[2]] <= 1
            /\ flips[rc[1]][rc[2]] = 1 =>
                 /\ pc \in {"format", "render", "returned"}
                 /\ reserved[rc[1]][rc[2]] = 0
                 /\ MaskInvert(bestMask, rc[1], rc[2]))
  /\ [][pc = "trial" => matrix' = matrix]_vars

\* a returned version 6 symbol in which a cell of column 0 was written once
\* and inverted once, and another was written once and not inverted
C7_Witness ==
  /\ pc = "returned" /\ version = 6
  /\ \E r \in 9..32 : writes[r][0] = 1 /\ flips[r][0] = 1
  /\ \E r \in 9..32 : writes[r][0] = 1 /\ flips[r][0] = 0

\* C8: when the loop over the masks has ended, eight candidates have been
\* scored, each score is evaluatePenalty of the working matrix under that
\* mask, and bestMask is the lowest id in 0..7 with the minimum score; the
\* working matrix is then masked with bestMask and with nothing else.
C8_BestMask ==
  /\ [](pc = "applyMask" =>
          /\ Len(scores) = 8
          /\ \A m \in 0..7 :
               scores[m + 1] = evaluatePenalty(applyMask(matrix, reserved, m, size), size)
          /\ bestMask \in 0..7
          /\ \A m \in 0..7 : scores[m + 1] >= scores[bestMask + 1]
          /\ \A m \in 0..7 : m < bestMask => scores[m + 1] > scores[bestMask + 1])
  /\ [][pc = "applyMask" =>
          /\ bestMask' = bestMask
          /\ \A rc \in Cells :
               matrix'[rc[1]][rc[2]] # matrix[rc[1]][rc[2]] <=>
                 (reserved[rc[1]][rc[2]] = 0 /\ MaskInvert(bestMask, rc[1], rc[2]))]_vars
  /\ [][(pc = "trial" \/ pc = "format" \/ pc = "render") =>
          (\A rc \in Cells : reserved[rc[1]][rc[2]] = 0 =>
             (matrix[rc[1]][rc[2]] = matrix'[rc[1]][rc[2]]))]_vars

\* masks 5 and 6 tie for the minimum and mask 5 has been applied
C8_Witness ==
  /\ pc = "format" /\ text = TextTie
  /\ scores[6] = scores[7] /\ \A m \in 0..7 : scores[m + 1] >= scores[6]
  /\ bestMask = 5

(***************************************************************************)
(* The dark flag: two calls with the same text.                            *)
(***************************************************************************)
\* the previous call and this one returned for the same text, one with
\* dark = true and one with dark = false
DarkPair ==
  /\ pc = "returned" /\ prev.pc = "returned"
  /\ prev.text = text /\ prev.dark # dark

Geometry(rects) ==
  { [x |-> rects[k].x, y |-> rects[k].y, width |-> rects[k].width, height |-> rects[k].height] :
      k \in 1..Len(rects) }

\* C9: two finished calls with the same text and different dark flags end the
\* same way, and when they return, their SVGs have the same document size,
\* the same number of module rects and the same set of rect positions and sizes.
C9_DarkSameLayout ==
  /\ (pc \in {"returned", "thrown"} /\ prev.pc \in {"returned", "thrown"}
        /\ prev.text = text /\ prev.dark # dark) => prev.pc = pc
  /\ DarkPair =>
       /\ svg.width = prev.svg.width /\ svg.height = prev.svg.height
       /\ Len(svg.rects) = Len(prev.svg.rects)
       /\ Geometry(svg.rects) = Geometry(prev.svg.rects)
       /\ Cardinality(Geometry(svg.rects)) = Len(svg.rects)

\* "fN" has been rendered with dark = false and then with dark = true
C9_Witness ==
  DarkPair /\ text = TextTie /\ dark /\ Len(svg.rects) > 0 /\ svg.width = 232

\* the SVG of the pair made with dark = true, and the one made with dark = false
DarkSvg == IF dark THEN svg ELSE prev.svg
LightSvg == IF dark THEN prev.svg ELSE svg

\* every module rect of the SVG has the fill colour, and there is one at least
ModuleFill(doc, colour) ==
  Len(doc.rects) > 0 /\ \A k \in 1..Len(doc.rects) : doc.rects[k].fill = colour

C11_RectPerDarkModule ==
  pc = "returned" =>
    LET dark_modules == {rc \in Cells : matrix[rc[1]][rc[2]] # 0}
        at(rc) == [x |-> margin + rc[2] * moduleSize, y |-> margin + rc[1] * moduleSize,
                   width |-> moduleSize, height |-> moduleSize]
    IN /\ margin = 4 * moduleSize
       /\ svg.width = size * moduleSize + 2 * margin
       /\ svg.height = size * moduleSize + 2 * margin
       /\ svg.background = lightColor(dark)
       /\ Len(svg.rects) = Cardinality(dark_modules)
       /\ Geometry(svg.rects) = {at(rc) : rc \in dark_modules}
       /\ \A rc \in Cells \ dark_modules : at(rc) \notin Geometry(svg.rects)

\* the SVG of "Hello World" has been returned: 21 x 21 modules, dark and
\* light ones in its first row, which is not equal to its first column
C11_Witness ==
  /\ pc = "returned" /\ text = TextHello
  /\ svg.width = 232 /\ Len(svg.rects) > 0
  /\ \E r \in 9..12 : matrix[r][0] # matrix[0][r]

(***************************************************************************)
(* The bug-report URLs of the scanner test.                                *)
(***************************************************************************)
\* C12: for each URL of the scanner test's bug-report list (ASCII URLs of
\* 115, 107 and 167 bytes), generateQR(url) returns an SVG instead of
\* throwing.
C12_BugReportUrlsReturn ==
  /\ Len(bugReportUrls[1].units) = 115 /\ Len(bugReportUrls[2].units) = 107 /\ Len(bugReportUrls[3].units) = 167
  /\ \A i \in 1..Len(bugReportUrls) :
       (text = bugReportUrls[i] /\ pc # "idle") =>
         /\ pc # "thrown"
         /\ pc = "returned" => SvgComplete

(***************************************************************************)
(* UTF-8.                                                                  *)
(***************************************************************************)
\* the UTF-8 bytes of the code point cp (RFC 3629)
Utf8OfCodePoint(cp) ==
  CASE cp < 128 -> <<cp>>
    [] cp >= 128 /\ cp < 2048 -> <<192 + (cp \div 64), 128 + (cp % 64)>>
    [] cp >= 2048 /\ cp < 65536 ->
         <<224 + (cp \div 4096), 128 + ((cp \div 64) % 64), 128 + (cp % 64)>>
    [] OTHER ->
         <<240 + (cp \div 262144), 128 + ((cp \div 4096) % 64),
           128 + ((cp \div 64) % 64), 128 + (cp % 64)>>

\* the code point of the surrogate pair hi, lo
CodePointOfPair(hi, lo) == 65536 + (hi - 55296) * 1024 + (lo - 56320)

\* the UTF-8 bytes contributed by the code unit u[k]: a high surrogate with
\* its low surrogate is one code point, the low surrogate of a pair adds
\* nothing, a lone surrogate is U+FFFD
Utf8OfUnit(u, k) ==
  CASE IsHighSurrogate(u[k]) /\ k < Len(u) /\ IsLowSurrogate(u[k + 1]) ->
         Utf8OfCodePoint(CodePointOfPair(u[k], u[k + 1]))
    [] IsLowSurrogate(u[k]) /\ k > 1 /\ IsHighSurrogate(u[k - 1]) -> <<>>
    [] IsHighSurrogate(u[k]) \/ IsLowSurrogate(u[k]) -> Utf8OfCodePoint(65533)
    [] OTHER -> Utf8OfCodePoint(u[k])

\* the UTF-8 encoding of a string (TextEncoder.encode)
Utf8Encode(u) == Loop(LAMBDA bytes, k : bytes \o Utf8OfUnit(u, k), 1, Len(u), <<>>)

\* C13: the bytes encodeByteMode returns are exactly the UTF-8 encoding of the
\* string, characters outside the BMP included (one 4-byte sequence per code
\* point), so the version is selected for the UTF-8 byte length.
C13_BytesAreUtf8 ==
  /\ dataBytes # NoSeq =>
       /\ dataBytes = Utf8Encode(str)
       /\ Len(dataBytes) = Utf8Length(str)
  /\ version # Undefined => version = getMinVersion(Len(Utf8Encode(str)))

(***************************************************************************)
(* Calls in sequence.                                                      *)
(***************************************************************************)
\* the call in progress and the call before it have the same arguments and
\* have both finished
SameCallTwice ==
  /\ pc \in {"returned", "thrown"} /\ prev.pc \in {"returned", "thrown"}
  /\ prev.text = text /\ prev.dark = dark

EcCounts == { VERSION_INFO[v].ecL[3] : v \in 1..Len(VERSION_INFO) }

\* length of the enumerated data arrays given to rsEncode
MaxData == 2

\* data arrays: every array of at most MaxData bytes of 0, 1, 2, 128, 255, and
\* three arrays with the block lengths 19, 34 and 68
DataArrays ==
  UNION { [1..n -> {0, 1, 2, 128, 255}] : n \in 0..MaxData }
    \cup { [k \in 1..n |-> (k * 37 + n) % 256] : n \in {19, 34, 68} }

\* byte arrays of every length createQRCode accepts, 1 to 134 bytes
ByteArrays == { [k \in 1..n |-> (k * 37 + n) % 256] : n \in 1..Capacity }

InitField ==
  /\ text = Null /\ dark = FALSE
  /\ FreshLocals
  /\ prev = NoCall
  /\ probeV = Undefined
  /\ GF_EXP = initGF.exp /\ GF_LOG = initGF.log
  /\ \/ pc = "gfMul" /\ probeN \in 0..255
     \/ pc = "rsGeneratorPoly" /\ probeN \in EcCounts
     \/ pc = "rsEncode" /\ probeN \in DataArrays \X EcCounts
     \/ pc = "bits" /\ probeN \in ByteArrays

\* gfMul(a, b) for one a and every b
ApplyGfMul ==
  /\ pc = "gfMul"
  /\ probeV' = [b \in 0..255 |-> gfMul(probeN, b)]
  /\ pc' = "gfMul.done"
  /\ UNCHANGED <<callVars, encVars, gridVars, maskVars, outVars, prev, probeN, tableVars>>

ApplyRsGeneratorPoly ==
  /\ pc = "rsGeneratorPoly"
  /\ probeV' = rsGeneratorPoly(probeN)
  /\ pc' = "rsGeneratorPoly.done"
  /\ UNCHANGED <<callVars, encVars, gridVars, maskVars, outVars, prev, probeN, tableVars>>

ApplyRsEncode ==
  /\ pc = "rsEncode"
  /\ probeV' = rsEncode(probeN[1], probeN[2])
  /\ pc' = "rsEncode.done"
  /\ UNCHANGED <<callVars, encVars, gridVars, maskVars, outVars, prev, probeN, tableVars>>

\* the bit sequence and the data codewords createQRCode builds for dataBytes
ApplyBuildBits ==
  /\ pc = "bits"
  /\ probeV' = [version |-> getMinVersion(Len(probeN)),
                bits |-> BuildBits(probeN, getMinVersion(Len(probeN))),
                dataCodewords |-> ToCodewords(BuildBits(probeN, getMinVersion(Len(probeN))))]
  /\ pc' = "bits.done"
  /\ UNCHANGED <<callVars, encVars, gridVars, maskVars, outVars, prev, probeN, tableVars>>

NextField == ApplyGfMul \/ ApplyRsGeneratorPoly \/ ApplyRsEncode \/ ApplyBuildBits

SpecField == InitField /\ [][NextField]_vars

(***************************************************************************)
(* GF(2^8) by its definition: polynomials over GF(2) modulo                *)
(* x^8 + x^4 + x^3 + x^2 + 1.                                              *)
(***************************************************************************)
\* a(x) * x modulo the field polynomial 0x11D
TimesX(a) == IF 2 * a >= 256 THEN BitXor(2 * a - 256, 29) ELSE 2 * a

\* a(x) * b(x) modulo the field polynomial: Horner's rule over the bits of b
FieldProduct(a, b) ==
  Loop(LAMBDA acc, k : BitXor(TimesX(acc), IF (b \div Pow2(7 - k)) % 2 = 1 THEN a ELSE 0),
       0, 7, 0)

\* alpha^i for alpha = x
AlphaPower(i) == Loop(LAMBDA acc, k : TimesX(acc), 1, i, 1)

\* the value at x of the polynomial with the coefficients poly, highest degree first
PolyEval(poly, x) ==
  Loop(LAMBDA acc, k : BitXor(FieldProduct(acc, x), poly[k]), 1, Len(poly), 0)

\* C17: for all a, b in 0..255, gfMul(a, b) is the product of the polynomials a
\* and b modulo 0x11D; it is 0 exactly when a = 0 or b = 0, and otherwise
\* GF_EXP[GF_LOG[a] + GF_LOG[b]], with GF_LOG assigned for every value 1..255
\* and the index inside the assigned part of GF_EXP.
C17_GfMulIsFieldProduct ==
  pc = "gfMul.done" =>
    \A b \in 0..255 :
      LET a == probeN IN
      /\ probeV[b] = FieldProduct(a, b)
      /\ probeV[b] = 0 <=> (a = 0 \/ b = 0)
      /\ b # 0 => GF_LOG[b] \in 0..254
      /\ (a # 0 /\ b # 0) =>
           /\ GF_LOG[a] + GF_LOG[b] \in DOMAIN GF_EXP
           /\ GF_EXP[GF_LOG[a] + GF_LOG[b]] # Undefined
           /\ probeV[b] = GF_EXP[GF_LOG[a] + GF_LOG[b]]

\* gfMul(142, b) has been computed: 142 * 2 = 1, the largest index 253 + 254 is used
C17_Witness ==
  /\ pc = "gfMul.done" /\ probeN = 142
  /\ probeV[2] = 1 /\ probeV[0] = 0
  /\ GF_LOG[142] = 254 /\ \E b \in 1..255 : GF_LOG[b] = 253

\* C18: for n in {7, 10, 15, 18, 20, 26}, rsGeneratorPoly(n) has n + 1
\* coefficients, highest degree first, with leading coefficient 1, and is the
\* product of (x - alpha^i) for i in [0, n): the monic polynomial of degree n
\* that vanishes at the n distinct points alpha^0 .. alpha^(n-1).
C18_GeneratorIsProduct ==
  /\ EcCounts = {7, 10, 15, 18, 20, 26}
  /\ pc = "rsGeneratorPoly.done" =>
       LET n == probeN IN
       /\ Len(probeV) = n + 1
       /\ probeV[1] = 1
       /\ \A k \in 1..(n + 1) : probeV[k] \in 0..255
       /\ \A i \in 0..(n - 1) : PolyEval(probeV, AlphaPower(i)) = 0
       /\ \A i, j \in 0..(n - 1) : i # j => AlphaPower(i) # AlphaPower(j)
       /\ n = 7 => probeV = <<1, 127, 122, 154, 164, 11, 68, 117>>

\* the generator for 26 error correction codewords has been computed
C18_Witness ==
  /\ pc = "rsGeneratorPoly.done" /\ probeN = 26
  /\ Len(probeV) = 27 /\ probeV[27] = AlphaPower(70)

\* C15: rsEncode(data, n) returns exactly n codewords, each in 0..255, that are
\* the remainder of data(x) * x^n divided by the generator of degree n: data
\* followed by them is a polynomial that vanishes at alpha^i for every i in [0, n).
C15_RsEncodeIsRemainder ==
  pc = "rsEncode.done" =>
    LET data == probeN[1]
        n == probeN[2]
    IN /\ Len(probeV) = n
       /\ \A k \in 1..n : probeV[k] \in 0..255
       /\ \A i \in 0..(n - 1) : PolyEval(data \o probeV, AlphaPower(i)) = 0

\* the 7 codewords for the data <<1, 255>> have been computed, and they are not all 0
C15_Witness ==
  /\ pc = "rsEncode.done" /\ probeN = << <<1, 255>>, 7 >>
  /\ Len(probeV) = 7 /\ \E k \in 1..7 : probeV[k] # 0

(***************************************************************************)
(* Format information.                                                     *)
(***************************************************************************)
\* the columns of row 8 read from left to right: 0 to 5, 7, then size - 8 to size - 1
FormatRowColumns == <<0, 1, 2, 3, 4, 5, 7>> \o [k \in 1..8 |-> size - 9 + k]

\* the rows of column 8 read from bottom to top: size - 1 to size - 7, then 8, 7, 5 to 0
FormatColumnRows == [k \in 1..7 |-> size - k] \o <<8, 7, 5, 4, 3, 2, 1, 0>>

\* the 15 bits of the format word of the mask applied, bit 14 first
AppliedFormatWord == BitsMsbFirst(FORMAT_INFO[bestMask + 1], 14)

\* C16: after addFormatInfo the symbol carries FORMAT_INFO[m] of the mask m
\* applied, twice, in the positions of the standard: row 8 read from left to
\* right over the columns 0-5, 7, size-8 .. size-1 gives the format bits 14 .. 0,
\* and column 8 read from bottom to top over the rows size-1 .. size-7, 8, 7,
\* 5 .. 0 gives the format bits 14 .. 0.
C16_FormatCopiesInPlace ==
  pc \in {"render", "returned"} =>
    /\ [k \in 1..15 |-> matrix[8][FormatRowColumns[k]]] = AppliedFormatWord
    /\ [k \in 1..15 |-> matrix[FormatColumnRows[k]][8]] = AppliedFormatWord

(***************************************************************************)
(* The bit stream.                                                         *)
(***************************************************************************)
\* the number with the binary digits b[from], ..., b[from + 7], most significant first
ByteOfBits(b, from) ==
  128 * b[from] + 64 * b[from + 1] + 32 * b[from + 2] + 16 * b[from + 3]
    + 8 * b[from + 4] + 4 * b[from + 5] + 2 * b[from + 6] + b[from + 7]

\* C19: for every version 1..6 and every byte array accepted for it, the bit
\* sequence (mode 0100, 8-bit count, the data bytes most significant bit
\* first, terminator, padding to a byte boundary, pad codewords 0xEC, 0x11, ...
\* starting with 0xEC) has exactly 8 * totalDataCodewords bits, never more,
\* and is converted into exactly totalDataCodewords codewords.
C19_BitStreamLength ==
  pc = "bits.done" =>
    LET n == Len(probeN)
        b == probeV.bits
        total == VERSION_INFO[probeV.version].ecL[2]
        used == 2 + n
    IN /\ probeV.version \in 1..6
       /\ Len(b) = 8 * total
       /\ Len(probeV.dataCodewords) = total
       /\ \A c \in 1..total : probeV.dataCodewords[c] = ByteOfBits(b, 8 * c - 7)
       /\ SubSeq(b, 1, 4) = <<0, 1, 0, 0>>
       /\ ByteOfBits(b, 5) = n
       /\ \A j \in 1..n : ByteOfBits(b, 8 * j + 5) = probeN[j]
       /\ SubSeq(b, 8 * n + 13, 8 * n + 16) = <<0, 0, 0, 0>>
       /\ used <= total
       /\ \A c \in (used + 1)..total :
            probeV.dataCodewords[c] = IF (c - used) % 2 = 1 THEN 236 ELSE 17

\* the stream of a 16-byte array has been built: version 1, 152 bits, 19
\* codewords, the last of them the pad codeword 0xEC
C19_Witness ==
  /\ pc = "bits.done" /\ Len(probeN) = 16
  /\ probeV.version = 1 /\ Len(probeV.bits) = 152
  /\ probeV.dataCodewords[19] = 236

(***************************************************************************)
(* Blocks and interleaving.                                                *)
(***************************************************************************)
\* C20: the data codewords are split into numBlocks contiguous slices of
\* dataCodewordsPerBlock, every data codeword in exactly one block; the
\* transmitted sequence is the i-th data codeword of every block in block
\* order for i = 0, 1, ..., then the i-th error correction codeword of every
\* block in block order, totalCodewords entries in all: 26, 44, 70, 100, 134,
\* 172 for the versions 1 to 6.
C20_BlocksInterleaved ==
  interleaved # NoSeq =>
    LET info == VERSION_INFO[version].ecL
        numBlocks == info[4]
        perBlock == info[5]
        ecPerBlock == info[3]
        block(b) == SubSeq(dataCodewords, b * perBlock + 1, (b + 1) * perBlock)
        ec == Strict([b \in 0..(numBlocks - 1) |-> rsEncode(block(b), ecPerBlock)])
    IN /\ numBlocks * perBlock = Len(dataCodewords)
       /\ Len(dataCodewords) = info[2]
       /\ Len(interleaved) = VERSION_INFO[version].totalCodewords
       /\ Len(interleaved) = <<26, 44, 70, 100, 134, 172>>[version]
       /\ Len(interleaved) = numBlocks * (perBlock + ecPerBlock)
       /\ \A b \in 0..(numBlocks - 1), i \in 0..(perBlock - 1) :
            interleaved[i * numBlocks + b + 1] = dataCodewords[b * perBlock + i + 1]
       /\ \A b \in 0..(numBlocks - 1), i \in 0..(ecPerBlock - 1) :
            interleaved[Len(dataCodewords) + i * numBlocks + b + 1] = ec[b][i + 1]

\* the 172 codewords of a version 6 symbol (2 blocks of 68 data codewords) have
\* been put in order, and the two blocks differ in their first codeword
C20_Witness ==
  /\ pc = "alloc" /\ version = 6 /\ text = bugReportUrls[1]
  /\ Len(interleaved) = 172
  /\ interleaved[1] = dataCodewords[1] /\ interleaved[2] = dataCodewords[69]
  /\ interleaved[1] # interleaved[2]

(***************************************************************************)
(* Data placement.                                                         *)
(***************************************************************************)
\* the right columns of the column pairs in the order of the sweeps:
\* size - 1, size - 3, ..., 8, then 5, 3, 1
PairRights == [p \in 1..((size - 7) \div 2) |-> size + 1 - 2 * p] \o <<5, 3, 1>>

\* the cells in the order of the sweeps: pair after pair, the first pair from
\* the bottom row up and every next pair in the opposite direction, in each
\* row the right column before the left
VisitOrder ==
  LET pairs == PairRights
  IN [k \in 1..(2 * size * Len(pairs)) |->
        LET p == ((k - 1) \div (2 * size)) + 1
            i == ((k - 1) % (2 * size)) \div 2
        IN << IF p % 2 = 1 THEN size - 1 - i ELSE i, pairs[p] - ((k - 1) % 2) >>]

\* the cells that are not reserved, in the order of the sweeps
FreeCells == SelectSeq(VisitOrder, LAMBDA rc : reserved[rc[1]][rc[2]] = 0)

\* bit k (from 1) of the codeword stream, each codeword from its bit 7 down
StreamBit(codewords, k) == (codewords[((k - 1) \div 8) + 1] \div Pow2(7 - ((k - 1) % 8))) % 2

\* C21: in every version the cells left unreserved by the five reservation
\* phases are at least 8 * totalCodewords, so placeDataBits places every bit
\* of the interleaved stream, and only the cells visited after the last
\* codeword (none in version 1, 7 in versions 2 to 6) receive the value 0.
C21_EveryBitPlaced ==
  /\ pc = "place" =>
       LET free == Cardinality({rc \in Cells : reserved[rc[1]][rc[2]] = 0})
           st == placeDataBits(matrix, reserved, interleaved, size)
       IN /\ free >= 8 * VERSION_INFO[version].totalCodewords
          /\ free - 8 * Len(interleaved) = (IF version = 1 THEN 0 ELSE 7)
          /\ st.bitIdx = 8 * Len(interleaved)
  /\ (pc = "trial" /\ mask = 0) =>
       LET free == FreeCells
       IN /\ Len(free) - 8 * Len(interleaved) = (IF version = 1 THEN 0 ELSE 7)
          /\ \A k \in 1..Len(free) :
               /\ writes[free[k][1]][free[k][2]] = 1
               /\ k > 8 * Len(interleaved) => matrix[free[k][1]][free[k][2]] = 0

\* the stream of a version 2 symbol has been placed: 352 bits in 359 cells,
\* the last of them cell (16, 0), which holds 0
C21_Witness ==
  /\ pc = "trial" /\ mask = 0 /\ version = 2
  /\ Len(FreeCells) = 359 /\ Len(interleaved) = 44
  /\ FreeCells[359] = <<16, 0>> /\ matrix[16][0] = 0

\* C22: placeDataBits sweeps the column pairs (size-1, size-2), (size-3,
\* size-4), ..., (8, 7), (5, 4), (3, 2), (1, 0) in this order and never column
\* 6, the first pair from the bottom row up and every next pair in the opposite
\* direction, the right column of a pair before the left in every row; the
\* k-th non-reserved cell visited holds bit k of the interleaved codewords,
\* each codeword taken from its most significant bit.
C22_ZigZagOrder ==
  (pc = "trial" /\ mask = 0) =>
    LET free == FreeCells
    IN /\ SweepColumns(size - 1) = PairRights
       /\ \A p \in 1..Len(PairRights) : PairRights[p] # 6 /\ PairRights[p] - 1 # 6
       /\ { VisitOrder[k] : k \in 1..Len(VisitOrder) } = { rc \in Cells : rc[2] # 6 }
       /\ Len(VisitOrder) = size * (size - 1)
       /\ \A k \in 1..(8 * Len(interleaved)) :
            matrix[free[k][1]][free[k][2]] = StreamBit(interleaved, k)

\* the 208 bits of "Hello World" have been placed: the stream starts 0, 1, 0, 0
\* in the cells (20, 20), (20, 19), (19, 20), (19, 19), and the second pair of
\* columns runs downward from (9, 18)
C22_Witness ==
  /\ pc = "trial" /\ mask = 0 /\ text = TextHello
  /\ SubSeq(FreeCells, 1, 4) = << <<20, 20>>, <<20, 19>>, <<19, 20>>, <<19, 19>> >>
  /\ matrix[20][20] = 0 /\ matrix[20][19] = 1
  /\ FreeCells[25] = <<9, 18>> /\ matrix[9][18] = StreamBit(interleaved, 25)

(***************************************************************************)
(* The order of the matrix phases.                                         *)
(***************************************************************************)
\* the phase that follows each phase of the matrix construction
NextPhase ==
  [alloc |-> {"finder"}, finder |-> {"alignment"}, alignment |-> {"timing"},
   timing |-> {"darkModule"}, darkModule |-> {"reserveFormat"},
   reserveFormat |-> {"place"}, place |-> {"trial"},
   trial |-> {"trial", "applyMask"}, applyMask |-> {"format"}, format |-> {"render"}]

\* C23: the matrix phases run in the order finder, alignment, timing, dark
\* module, format reservation, data placement, mask selection (eight trials),
\* mask application, format write; the reserved grid is complete (every
\* function module marked) before the first data bit is placed, and data
\* placement, the mask trials, the mask application and the format write
\* leave it as it is.
C23_PhaseOrder ==
  /\ [][/\ pc \in DOMAIN NextPhase => pc' \in NextPhase[pc]
        /\ (pc = "trial" /\ pc' = "applyMask") => mask' = 8
        /\ pc \in {"place", "trial", "applyMask", "format"} => reserved' = reserved]_vars
  /\ [](pc = "place" =>
          /\ writes = NoGrid
          /\ \A rc \in Cells :
               reserved[rc[1]][rc[2]] # 0 <=> IsFunctionModule(size, rc[1], rc[2]))

\* the format word has been written into a version 3 matrix whose reserved
\* grid still marks the format cell (8, 28) and no data cell such as (28, 28)
C23_Witness ==
  /\ pc = "render" /\ version = 3 /\ mask = 8
  /\ reserved[8][28] = 1 /\ reserved[28][28] = 0
  /\ writes[28][28] = 1

(***************************************************************************)
(* Alignment pattern.                                                      *)
(***************************************************************************)
\* the 5 x 5 cells around (size - 7, size - 7) in versions 2 and above
AlignmentBlock ==
  IF version >= 2
    THEN { rc \in Cells : Abs(rc[1] - (size - 7)) <= 2 /\ Abs(rc[2] - (size - 7)) <= 2 }
    ELSE {}

\* dark border, light ring, dark centre
RingInDot(dr, dc) == IF Max(Abs(dr), Abs(dc)) = 1 THEN 0 ELSE 1

\* the cells of the three finder patterns and their separators
FinderArea ==
  { rc \in Cells : \/ rc[1] <= 7 /\ rc[2] <= 7
                   \/ rc[1] <= 7 /\ rc[2] >= size - 8
                   \/ rc[1] >= size - 8 /\ rc[2] <= 7 }

\* C24: in versions 2 to 6 addAlignmentPatterns stamps exactly one 5 x 5
\* pattern (dark border, light ring, dark centre) centred at (size - 7,
\* size - 7), the three other combinations of the coordinates being skipped,
\* and in version 1 none; the cells it writes are inside the matrix and are
\* no finder, separator or timing cell; it changes no other cell.
C24_OneAlignmentPattern ==
  /\ [][pc = "alignment" =>
          LET block == AlignmentBlock
          IN /\ Cardinality(block) = (IF version = 1 THEN 0 ELSE 25)
             /\ version >= 2 =>
                  /\ Len(ALIGNMENT_POSITIONS[version]) = 2
                  /\ ALIGNMENT_POSITIONS[version][2] = size - 7
                  /\ AlignmentCentres(version, size) = {<<size - 7, size - 7>>}
             /\ \A rc \in Cells :
                  IF rc \in block
                    THEN /\ reserved[rc[1]][rc[2]] = 0 /\ reserved'[rc[1]][rc[2]] = 1
                         /\ matrix'[rc[1]][rc[2]] = RingInDot(rc[1] - (size - 7), rc[2] - (size - 7))
                         /\ rc \notin FinderArea /\ rc[1] # 6 /\ rc[2] # 6
                    ELSE /\ reserved'[rc[1]][rc[2]] = reserved[rc[1]][rc[2]]
                         /\ matrix'[rc[1]][rc[2]] = matrix[rc[1]][rc[2]]]_vars
  /\ [](pc = "returned" =>
          \A rc \in AlignmentBlock :
            matrix[rc[1]][rc[2]] = RingInDot(rc[1] - (size - 7), rc[2] - (size - 7)))

\* the pattern of a version 2 symbol has been stamped around (18, 18)
C24_Witness ==
  /\ pc = "timing" /\ version = 2
  /\ matrix[18][18] = 1 /\ matrix[17][18] = 0 /\ matrix[16][16] = 1 /\ matrix[20][20] = 1
  /\ reserved[16][20] = 1 /\ reserved[15][18] = 0

(***************************************************************************)
(* Dark module.                                                            *)
(***************************************************************************)
\* C25: in every version, for every input and every selected mask, the cell
\* at row 4 * version + 9, column 8 is dark in the returned matrix: it is
\* drawn dark and marked reserved by addDarkModule, and data placement, the
\* trial and final maskings and the format write leave it dark.
C25_DarkModuleStaysDark ==
  /\ pc \in {"reserveFormat", "place", "trial", "applyMask", "format", "render", "returned"} =>
       /\ 4 * version + 9 = size - 8
       /\ matrix[4 * version + 9][8] = 1
       /\ reserved[4 * version + 9][8] = 1
  /\ testMatrix # NoGrid => testMatrix[4 * version + 9][8] = 1
  /\ pc = "returned" =>
       \E k \in 1..Len(svg.rects) :
         svg.rects[k].x = margin + 8 * moduleSize
           /\ svg.rects[k].y = margin + (4 * version + 9) * moduleSize

\* a version 2 symbol has been returned with mask 6: the dark module (17, 8)
\* is dark above the format cells (18, 8) and (19, 8), of which the second is light
C25_Witness ==
  /\ pc = "returned" /\ version = 2 /\ bestMask = 6
  /\ matrix[17][8] = 1 /\ matrix[19][8] = 0

(***************************************************************************)
(* Masks.                                                                  *)
(***************************************************************************)
\* grid b is grid a with exactly the non-reserved cells inverted for which
\* the mask formula id of the standard holds
MaskedBy(a, b, id) ==
  \A rc \in Cells :
    b[rc[1]][rc[2]] =
      IF reserved[rc[1]][rc[2]] = 0 /\ MaskCondition(id, rc[1], rc[2])
        THEN 1 - a[rc[1]][rc[2]]
        ELSE a[rc[1]][rc[2]]

\* C26: applyMask(matrix, reserved, k) inverts a non-reserved cell (r, c) if
\* and only if mask formula k holds for (r, c) - 0: (r+c)%2 = 0, 1: r%2 = 0,
\* 2: c%3 = 0, 3: (r+c)%3 = 0, 4: (r div 2 + c div 3)%2 = 0, 5: (r*c)%2 +
\* (r*c)%3 = 0, 6: ((r*c)%2 + (r*c)%3)%2 = 0, 7: ((r+c)%2 + (r*c)%3)%2 = 0 -
\* and leaves every other cell as it is.
C26_MaskFormulas ==
  [][/\ pc = "trial" => (mask \in 0..7 /\ MaskedBy(matrix, testMatrix', mask))
     /\ pc = "applyMask" => (bestMask \in 0..7 /\ MaskedBy(matrix, matrix', bestMask))]_vars

\* mask 4 has been tried on a version 3 matrix (mask counts 5): the data cell
\* (28, 24) is inverted in the trial copy, (28 div 2 + 24 div 3) % 2 being 0,
\* and the data cell (28, 28) is not, (28 div 2 + 28 div 3) % 2 being 1
C26_Witness ==
  /\ pc = "trial" /\ mask = 5 /\ version = 3
  /\ reserved[28][24] = 0 /\ reserved[28][28] = 0
  /\ testMatrix[28][24] = 1 - matrix[28][24]
  /\ testMatrix[28][28] = matrix[28][28]

(***************************************************************************)
(* Penalty score.                                                          *)
(***************************************************************************)
\* the sum of f over the set S
RECURSIVE SumOver(_, _)
SumOver(S, f) ==
  IF S = {} THEN 0
  ELSE LET x == CHOOSE y \in S : TRUE IN f[x] + SumOver(S \ {x}, f)

\* the rows and the columns of grid m, each a line of size cells
Lines(m) ==
  [k \in 0..(2 * size - 1) |->
     IF k < size THEN m[k] ELSE [r \in 0..(size - 1) |-> m[r][k - size]]]

\* the maximal runs of equal cells of a line, as <<first, last>>
MaximalRuns(line) ==
  LET first == {0} \cup { k \in 1..(size - 1) : line[k] # line[k - 1] }
      last == {size - 1} \cup { k \in 0..(size - 2) : line[k] # line[k + 1] }
  IN { run \in first \X last :
         run[1] <= run[2] /\ \A k \in (run[1] + 1)..run[2] : k \notin first }

\* 3 + (len - 5) for every maximal run of 5 or more cells of the line
RunPenalty(line) ==
  LET long == { run \in MaximalRuns(line) : run[2] - run[1] + 1 >= 5 }
  IN SumOver(long, [run \in long |-> 3 + ((run[2] - run[1] + 1) - 5)])

\* 3 for every 2 x 2 block of equal cells
BlockPenalty(m) ==
  3 * Cardinality({ rc \in (0..(size - 2)) \X (0..(size - 2)) :
        m[rc[1]][rc[2]] + m[rc[1]][rc[2] + 1] + m[rc[1] + 1][rc[2]] + m[rc[1] + 1][rc[2] + 1]
          \in {0, 4} })

\* the 11 cells of the line from position k, read as a binary number
WindowValue(line, k) ==
  SumOver(0..10, [i \in 0..10 |-> line[k + i] * Pow2(10 - i)])

\* 40 for every window equal to 10111010000 (1488) or 00001011101 (93)
WindowPenalty(line) ==
  40 * Cardinality({ k \in 0..(size - 11) : WindowValue(line, k) \in {1488, 93} })

\* 10 * min(|p - 50|, |p + 5 - 50|) / 5 for the largest multiple p of 5 that
\* does not exceed the percentage of dark cells
BalancePenalty(m) ==
  LET darkCells == Cardinality({ rc \in Cells : m[rc[1]][rc[2]] = 1 })
      p == CHOOSE q \in { 5 * n : n \in 0..20 } :
             /\ q * size * size <= 100 * darkCells
             /\ (q + 5) * size * size > 100 * darkCells
  IN (10 * Min(Abs(p - 50), Abs(p + 5 - 50))) \div 5

\* the score of the four rules for grid m
RulesPenalty(m) ==
  LET lines == Lines(m)
  IN SumOver(DOMAIN lines, [k \in DOMAIN lines |-> RunPenalty(lines[k]) + WindowPenalty(lines[k])])
       + BlockPenalty(m) + BalancePenalty(m)

\* C27: evaluatePenalty returns the sum of the four rules: 3 + (len - 5) for
\* every maximal run of 5 or more equal modules in every row and column, 3
\* for every 2 x 2 block of equal modules, 40 for every 11-cell window of a
\* row or column equal to 10111010000 or 00001011101, and 10 * min(|p - 50|,
\* |p + 5 - 50|) / 5 for the largest multiple p of 5 not above the percentage
\* of dark modules.
C27_PenaltyIsSumOfRules ==
  (pc \in {"trial", "applyMask"} /\ mask >= 1) =>
    /\ Len(scores) = mask
    /\ scores[mask] = RulesPenalty(testMatrix)

\* the first mask of "Hello World" has been scored, with runs, blocks and
\* finder-like windows in the masked matrix and a share of dark modules
\* outside 45..55 percent
C27_Witness ==
  /\ pc = "trial" /\ mask = 1 /\ text = TextHello
  /\ PenaltyRule1(testMatrix, size) > 0 /\ PenaltyRule2(testMatrix, size) > 0
  /\ PenaltyRule3(testMatrix, size) > 0
  /\ scores[1] > PenaltyRule1(testMatrix, size) + PenaltyRule2(testMatrix, size)

(***************************************************************************)
(* The format words.                                                       *)
(***************************************************************************)
\* the format codeword of level L and mask id m: the data bits 01 and m, then
\* the remainder of their polynomial times x^10 divided by 10100110111
\* (0x537), the whole XOR-ed with 101010000010010 (0x5412)
IsoFormatWord(m) ==
  LET data == (8 + m) * 1024
  IN BitXor(data + BchRemainder(data, 1335, 14), 21522)

\* C28: for every mask id m in 0..7, FORMAT_INFO[m] is the format codeword of
\* ISO/IEC 18004 for error correction level L: the 5 data bits 01 and the
\* 3-bit mask id, followed by their 10-bit BCH remainder for the generator
\* 0x537, XOR-ed with 0x5412; it is the word addFormatInfo writes.
C28_FormatInfoTable ==
  /\ Len(FORMAT_INFO) = 8
  /\ \A m \in 0..7 :
       /\ FORMAT_INFO[m + 1] = IsoFormatWord(m)
       /\ FORMAT_INFO[m + 1] \in 0..32767
       /\ BitXor(FORMAT_INFO[m + 1], 21522) \div 1024 = 8 + m
       /\ FormatValid(BitXor(FORMAT_INFO[m + 1], 21522))
  /\ pc \in {"render", "returned"} => BitsToNumber(matrix, 1, 0) = IsoFormatWord(bestMask)

\* the word of mask 6, 0x6c41, has been written into a version 2 symbol
C28_Witness ==
  /\ pc = "render" /\ version = 2 /\ bestMask = 6
  /\ BitsToNumber(matrix, 1, 0) = 27713

(***************************************************************************)
(* Terminator and padding.                                                 *)
(***************************************************************************)
\* C29: for every accepted input the terminator step appends exactly 4 zero
\* bits (header and payload are at least 4 bits short of the capacity, each
\* version's byte capacity being totalDataCodewords - 2); the bit count is
\* then a multiple of 8, the byte-boundary step appends nothing, and the
\* number of pad codewords is totalDataCodewords - byteLength - 2.
C29_TerminatorAndPadding ==
  /\ \A v \in 1..6 : capacities[v + 1] = VERSION_INFO[v].ecL[2] - 2
  /\ pc = "bits.done" =>
       LET n == Len(probeN)
           v == probeV.version
           total == VERSION_INFO[v].ecL[2]
           maxBits == 8 * total
           b1 == HeaderAndData(probeN, v)
           b2 == TerminatorLoop(b1, 0, maxBits)
           b3 == ByteBoundaryLoop(b2, maxBits)
           b4 == PadCodewordLoop(b3, maxBits)
       IN /\ Len(b1) = 12 + 8 * n /\ Len(b1) + 4 <= maxBits
          /\ b2 = b1 \o <<0, 0, 0, 0>>
          /\ Len(b2) % 8 = 0
          /\ b3 = b2
          /\ SubSeq(b4, 1, Len(b3)) = b3
          /\ Len(b4) - Len(b3) = 8 * (total - n - 2)
          /\ b4 = probeV.bits

\* the stream of 134 bytes has been built: version 6, the 4 terminator bits
\* fill the last half codeword and no pad codeword follows
C29_Witness ==
  /\ pc = "bits.done" /\ Len(probeN) = 134 /\ probeV.version = 6
  /\ Len(probeV.bits) = 1088 /\ SubSeq(probeV.bits, 1085, 1088) = <<0, 0, 0, 0>>
  /\ Len(HeaderAndData(probeN, 6)) = 1084

(***************************************************************************)
(* The cells of the format write.                                          *)
(***************************************************************************)
\* the 15 cells around the top-left finder, the 8 cells of row 8 in the
\* columns size - 8 .. size - 1 and the 7 cells of column 8 in the rows
\* size - 7 .. size - 1
FormatTargets ==
  { <<8, c>> : c \in (0..5) \cup {7, 8} } \cup { <<r, 8>> : r \in (0..5) \cup {7} }
    \cup { <<8, c>> : c \in (size - 8)..(size - 1) }
    \cup { <<r, 8>> : r \in (size - 7)..(size - 1) }

\* C30: addFormatInfo modifies only cells that reserveFormatAreas marked
\* reserved and that hold no other function pattern: it writes exactly the 15
\* cells around the top-left finder (row 8 columns 0-5, 7, 8 and column 8
\* rows 7, 5-0), the 8 cells of row 8 in columns size-8 .. size-1 and the 7
\* cells of column 8 in rows size-7 .. size-1, and never a finder, separator,
\* timing, alignment, dark-module or data cell.
C30_FormatWriteFrame ==
  [][pc = "format" =>
       LET targets == FormatTargets
           drawn == DrawnPatterns
       IN /\ Cardinality(targets) = 30
          /\ Len(FormatWrites(size)) = 30
          /\ { <<FormatWrites(size)[k][1], FormatWrites(size)[k][2]>> : k \in 1..30 } = targets
          /\ \A rc \in Cells :
               IF rc \in targets
                 THEN /\ reserved[rc[1]][rc[2]] = 1
                      /\ rc \in FormatCells(size)
                      /\ drawn.reserved[rc[1]][rc[2]] = 0
                      /\ writes[rc[1]][rc[2]] = 0
                 ELSE matrix'[rc[1]][rc[2]] = matrix[rc[1]][rc[2]]]_vars

\* the word of mask 0 has been written into the symbol of "A": dark in (8, 0),
\* light in (8, 3) and (8, 17), and the timing cell (8, 6) is as drawn
C30_Witness ==
  /\ pc = "render" /\ text = TextA /\ bestMask = 0
  /\ matrix[8][0] = 1 /\ matrix[8][3] = 0 /\ matrix[8][17] = 0
  /\ matrix[8][6] = DrawnPatterns.matrix[8][6]

====
